---------------------------- MODULE Spec2Model ----------------------------
(***************************************************************************)
(* A model of the HTML-to-Markdown converter of nginx-markdown-for-agents  *)
(* (components/rust-converter): the output normalizer, the conversion      *)
(* context with its cooperative timeout, the lowering engine that walks    *)
(* the DOM, and the C boundary (markdown_convert / markdown_result_free).  *)
(*                                                                         *)
(* Text is a sequence of characters (one-character strings, BT for the     *)
(* backtick).  A DOM node is a record                                      *)
(* [kind, name, attrs, kids, text]; the parser (html5ever) is external     *)
(* and the model takes the trees it builds as its inputs.                  *)
(***************************************************************************)
EXTENDS Integers, Sequences, FiniteSets, TLC

VARIABLES
    phase,      \* which step the specification at hand has reached
    buf,        \* SpecNorm: the buffer handed to normalize_output
    normalized, \* SpecNorm: what normalize_output returned for it
    ctx,        \* SpecCtx: a ConversionContext [start_time, timeout, node_count]
    clock,      \* SpecCtx: the monotonic clock (Instant::now), in ticks
    probe,      \* SpecCtx: what the calls on ctx returned so far
    conv_in,    \* SpecConv: the tree, the converter and the timing of one conversion
    outcome,    \* SpecConv: what convert_with_context returned for it
    record,     \* SpecFfi: the caller's MarkdownResult record
    heap,       \* SpecFfi: the buffers handed out so far, [bytes, frees] each
    calls,      \* SpecFfi: the number of markdown_convert calls made so far
    last,       \* SpecFfi: the last call, its arguments and what it did
    threads     \* SpecThr: each thread's call, record and position in the call

normVars == <<buf, normalized>>
ctxVars == <<ctx, clock, probe>>
convVars == <<conv_in, outcome>>
ffiVars == <<record, heap, calls, last, threads>>
vars == <<phase, buf, normalized, ctx, clock, probe, conv_in, outcome,
          record, heap, calls, last, threads>>

(***************************************************************************)
(* Characters and the string helpers of the Rust standard library that     *)
(* the converter uses.                                                     *)
(***************************************************************************)
LF == "\n"
CR == "\r"
TAB == "\t"
SP == " "
\* the backtick, which a TLA+ string cannot hold
BT == "BT"

\* char::is_whitespace, on the characters of the model
is_whitespace(c) == c \in {SP, TAB, LF, CR}

\* str::starts_with / str::ends_with
starts_with(s, p) ==
    /\ Len(p) <= Len(s)
    /\ SubSeq(s, 1, Len(p)) = p

ends_with(s, p) ==
    /\ Len(p) <= Len(s)
    /\ SubSeq(s, Len(s) - Len(p) + 1, Len(s)) = p

\* str::trim_end
RECURSIVE trim_end(_)
trim_end(s) ==
    IF s # <<>> /\ is_whitespace(s[Len(s)])
    THEN trim_end(SubSeq(s, 1, Len(s) - 1))
    ELSE s

\* str::trim_start
RECURSIVE trim_start(_)
trim_start(s) ==
    IF s # <<>> /\ is_whitespace(s[1])
    THEN trim_start(Tail(s))
    ELSE s

\* str::trim
trim(s) == trim_start(trim_end(s))

\* str::replace of CR LF by LF: left to right, without overlap
RECURSIVE replace_crlf(_)
replace_crlf(s) ==
    IF s = <<>> THEN <<>>
    ELSE IF Len(s) >= 2 /\ s[1] = CR /\ s[2] = LF
         THEN <<LF>> \o replace_crlf(SubSeq(s, 3, Len(s)))
         ELSE <<s[1]>> \o replace_crlf(Tail(s))

\* str::lines: split at LF; a CR right before that LF is dropped from the line;
\* a final LF starts no further (empty) line
RECURSIVE lines_from(_, _)
lines_from(s, cur) ==
    IF s = <<>>
    THEN IF cur = <<>> THEN <<>> ELSE <<cur>>
    ELSE IF s[1] = LF
         THEN <<(IF ends_with(cur, <<CR>>) THEN SubSeq(cur, 1, Len(cur) - 1) ELSE cur)>>
              \o lines_from(Tail(s), <<>>)
         ELSE lines_from(Tail(s), Append(cur, s[1]))

lines(s) == lines_from(s, <<>>)

(***************************************************************************)
(* The output normalizer (converter.rs).                                   *)
(***************************************************************************)
\* normalize_line_whitespace: the loop over the characters of one line, with
\* its three flags
RECURSIVE line_ws_loop(_, _, _, _, _)
line_ws_loop(line, result, prev_space, at_start, in_inline_code) ==
    IF line = <<>> THEN result
    ELSE LET ch == line[1]
             rest == Tail(line)
         IN IF ch = BT
            THEN line_ws_loop(rest, Append(result, ch), FALSE, FALSE, ~in_inline_code)
            ELSE IF ch = SP
            THEN IF in_inline_code
                 THEN line_ws_loop(rest, Append(result, ch), prev_space, at_start, in_inline_code)
                 ELSE IF at_start
                 THEN line_ws_loop(rest, Append(result, ch), prev_space, at_start, in_inline_code)
                 ELSE IF ~prev_space
                 THEN line_ws_loop(rest, Append(result, ch), TRUE, at_start, in_inline_code)
                 ELSE line_ws_loop(rest, result, prev_space, at_start, in_inline_code)
            ELSE line_ws_loop(rest, Append(result, ch), FALSE, FALSE, in_inline_code)

normalize_line_whitespace(line) == line_ws_loop(line, <<>>, FALSE, TRUE, FALSE)

Fence == <<BT, BT, BT>>

\* the body of normalize_output's loop over the lines
RECURSIVE output_loop(_, _, _, _)
output_loop(ls, result, prev_blank, in_code_block) ==
    IF ls = <<>> THEN result
    ELSE LET line == ls[1]
             in_code == IF starts_with(trim_start(line), Fence)
                        THEN ~in_code_block ELSE in_code_block
             trimmed == trim_end(line)
         IN IF trimmed = <<>>
            THEN IF ~prev_blank
                 THEN output_loop(Tail(ls), Append(result, LF), TRUE, in_code)
                 ELSE output_loop(Tail(ls), result, prev_blank, in_code)
            ELSE output_loop(Tail(ls),
                             (result \o (IF in_code THEN trimmed
                                         ELSE normalize_line_whitespace(trimmed)))
                                \o <<LF>>,
                             FALSE, in_code)

\* step 6 of normalize_output: exactly one trailing newline
RECURSIVE pop_extra_newlines(_)
pop_extra_newlines(result) ==
    IF ends_with(result, <<LF, LF>>)
    THEN pop_extra_newlines(SubSeq(result, 1, Len(result) - 1))
    ELSE result

\* a mutant of ensure_single_trailing_newline: a newline is pushed whether
\* or not the result already ends with one
push_trailing_newline(result) == Append(result, LF)

ensure_single_trailing_newline(result) ==
    IF ~ends_with(result, <<LF>>) THEN Append(result, LF)
    ELSE pop_extra_newlines(result)

normalize_output(output) ==
    ensure_single_trailing_newline(
        output_loop(lines(replace_crlf(output)), <<>>, FALSE, FALSE))

(***************************************************************************)
(* The conversion context (converter.rs): a start timestamp, a timeout     *)
(* (zero: none) and the node counter.  Time is counted in clock ticks.     *)
(***************************************************************************)
\* the frequency of increment_and_check's deadline checks
CheckpointEvery == 100

\* ConversionContext::new, called when the clock shows now
ConversionContext_new(timeout, now) ==
    [start_time |-> now, timeout |-> timeout, node_count |-> 0]

\* a mutant of check_timeout: the deadline is counted from the start of the
\* call (clock 0) instead of from the context's creation
check_timeout_since_call(c, now) ==
    IF c.timeout = 0 THEN "Ok"
    ELSE IF now > c.timeout THEN "Timeout"
    ELSE "Ok"

\* a mutant of check_timeout: a timeout of zero is a deadline like any other
check_timeout_zero_is_deadline(c, now) ==
    IF now - c.start_time > c.timeout THEN "Timeout"
    ELSE "Ok"

\* check_timeout, called when the clock shows now
check_timeout(c, now) ==
    IF c.timeout = 0 THEN "Ok"
    ELSE IF now - c.start_time > c.timeout THEN "Timeout"
    ELSE "Ok"

\* a mutant of is_checkpoint: the counter is tested before it is incremented
is_checkpoint_before_increment(node_count) ==
    (node_count - 1) % CheckpointEvery = 0

\* node_count.is_multiple_of(100)
is_checkpoint(node_count) == node_count % CheckpointEvery = 0

\* increment_and_check: the context after the call, and what the call returned
increment_and_check(c, now) ==
    LET c1 == [c EXCEPT !.node_count = c.node_count + 1]
    IN [ctx |-> c1,
        ret |-> IF is_checkpoint(c1.node_count) THEN check_timeout(c1, now) ELSE "Ok"]

NoContext == [start_time |-> 0, timeout |-> 0, node_count |-> 0]
NoProbe == [expired_at_first |-> FALSE, first_err_at |-> 0, last_ret |-> "none"]

(***************************************************************************)
(* The DOM the parser hands over (markup5ever_rcdom): Document, Element,   *)
(* Text and Comment nodes.  An element's attributes are an ordered list    *)
(* of [name, value] pairs.                                                 *)
(***************************************************************************)
Document(kids) == [kind |-> "Document", name |-> "", attrs |-> <<>>, kids |-> kids, text |-> <<>>]
Element(name, attrs, kids) ==
    [kind |-> "Element", name |-> name, attrs |-> attrs, kids |-> kids, text |-> <<>>]
Text(t) == [kind |-> "Text", name |-> "", attrs |-> <<>>, kids |-> <<>>, text |-> t]
Comment(t) == [kind |-> "Comment", name |-> "", attrs |-> <<>>, kids |-> <<>>, text |-> t]
Attr(name, value) == [name |-> name, value |-> value]

\* attrs.iter().find(|attr| attr.name.local == name).map(value): the first
\* attribute of that name, as [some, value]
RECURSIVE find_attr(_, _)
find_attr(attrs, name) ==
    IF attrs = <<>> THEN [some |-> FALSE, value |-> <<>>]
    ELSE IF attrs[1].name = name THEN [some |-> TRUE, value |-> attrs[1].value]
    ELSE find_attr(Tail(attrs), name)

\* str::to_lowercase, on the letters of the model
to_lowercase_char(c) ==
    LET UpperCase == <<"A", "B", "C", "D", "E", "F", "G", "H", "I", "J", "K", "L", "M",
                       "N", "O", "P", "Q", "R", "S", "T", "U", "V", "W", "X", "Y", "Z">>
        LowerCase == <<"a", "b", "c", "d", "e", "f", "g", "h", "i", "j", "k", "l", "m",
                       "n", "o", "p", "q", "r", "s", "t", "u", "v", "w", "x", "y", "z">>
    IN IF \E i \in 1..Len(UpperCase) : UpperCase[i] = c
       THEN LowerCase[CHOOSE i \in 1..Len(UpperCase) : UpperCase[i] = c]
       ELSE c

to_lowercase(s) == [i \in 1..Len(s) |-> to_lowercase_char(s[i])]

\* str::find: the index (from 0) of the first occurrence of pat in s, or -1
find(s, pat) ==
    LET hits == {i \in 0..(Len(s) - Len(pat)) : SubSeq(s, i + 1, i + Len(pat)) = pat}
    IN IF hits = {} THEN -1 ELSE CHOOSE i \in hits : \A j \in hits : i <= j

\* str::contains
contains(s, pat) == find(s, pat) >= 0

\* str::split_whitespace
RECURSIVE split_whitespace_from(_, _)
split_whitespace_from(s, cur) ==
    IF s = <<>>
    THEN IF cur = <<>> THEN <<>> ELSE <<cur>>
    ELSE IF is_whitespace(s[1])
         THEN (IF cur = <<>> THEN <<>> ELSE <<cur>>) \o split_whitespace_from(Tail(s), <<>>)
         ELSE split_whitespace_from(Tail(s), Append(cur, s[1]))

split_whitespace(s) == split_whitespace_from(s, <<>>)

\* [&str]::join(" ")
RECURSIVE join_space(_)
join_space(words) ==
    IF words = <<>> THEN <<>>
    ELSE IF Len(words) = 1 THEN words[1]
    ELSE (words[1] \o <<SP>>) \o join_space(Tail(words))

\* normalize_text: whitespace runs collapsed to one space, ends trimmed
normalize_text(text) == join_space(split_whitespace(text))

(***************************************************************************)
(* The security policy (security.rs).                                      *)
(***************************************************************************)
MAX_NESTING_DEPTH == 1000

DANGEROUS_ELEMENTS ==
    {"script", "style", "noscript", "iframe", "object", "embed", "applet", "link", "base"}

DANGEROUS_URL_SCHEMES ==
    {<<"j", "a", "v", "a", "s", "c", "r", "i", "p", "t", ":">>,
     <<"d", "a", "t", "a", ":">>,
     <<"v", "b", "s", "c", "r", "i", "p", "t", ":">>,
     <<"f", "i", "l", "e", ":">>,
     <<"a", "b", "o", "u", "t", ":">>}

\* SecurityValidator::new and SecurityValidator::with_max_depth
SecurityValidator_new == [max_depth |-> MAX_NESTING_DEPTH]
SecurityValidator_with_max_depth(max_depth) == [max_depth |-> max_depth]

\* check_element
check_element(tag_name) ==
    IF tag_name \in DANGEROUS_ELEMENTS THEN "Remove" ELSE "Allow"

\* is_dangerous_url
is_dangerous_url(url) ==
    LET url_lower == to_lowercase(trim(url))
    IN \E scheme \in DANGEROUS_URL_SCHEMES : starts_with(url_lower, scheme)

\* validate_depth
validate_depth(validator, depth) ==
    IF depth > validator.max_depth THEN "Err" ELSE "Ok"

\* sanitize_url: [some, value], none for a dangerous url
sanitize_url(url) ==
    IF is_dangerous_url(url) THEN [some |-> FALSE, value |-> <<>>]
    ELSE [some |-> TRUE, value |-> url]

(***************************************************************************)
(* The metadata extractor (metadata.rs).  An optional string is a record   *)
(* [some, value]; PageMetadata has six of them.                            *)
(***************************************************************************)
None == [some |-> FALSE, value |-> <<>>]
Some(v) == [some |-> TRUE, value |-> v]

\* PageMetadata::new
PageMetadata_new ==
    [title |-> None, description |-> None, url |-> None,
     image |-> None, author |-> None, published |-> None]

\* MetadataExtractor::new
MetadataExtractor_new(base_url, resolve_urls) ==
    [base_url |-> base_url, resolve_urls |-> resolve_urls]

\* str::trim_end_matches('/')
RECURSIVE trim_end_slashes(_)
trim_end_slashes(s) ==
    IF s # <<>> /\ s[Len(s)] = "/" THEN trim_end_slashes(SubSeq(s, 1, Len(s) - 1)) ELSE s

\* str::rfind('/'): the index (from 0) of the last slash, or -1
rfind_slash(s) ==
    LET hits == {i \in 0..(Len(s) - 1) : s[i + 1] = "/"}
    IN IF hits = {} THEN -1 ELSE CHOOSE i \in hits : \A j \in hits : j <= i

\* is_valid_base_url
is_valid_base_url(url) == starts_with(url, <<"h", "t", "t", "p", ":", "/",
                                             "/">>) \/ starts_with(url, <<"h", "t", "t", "p",
                                             "s", ":", "/", "/">>)

\* get_origin
get_origin(url) ==
    LET scheme_len == IF starts_with(url, <<"h", "t", "t", "p", "s", ":", "/", "/">>) THEN 8 ELSE 7
        after_scheme == SubSeq(url, scheme_len + 1, Len(url))
        pos == find(after_scheme, <<"/">>)
    IN IF ~is_valid_base_url(url) THEN url
       ELSE IF pos >= 0 THEN SubSeq(url, 1, scheme_len + pos)
       ELSE url

\* get_base_directory
get_base_directory(url) ==
    LET trimmed == trim_end_slashes(url)
        pos == rfind_slash(trimmed)
    IN IF pos < 0 THEN trimmed
       ELSE IF pos > 0 /\ trimmed[pos] = "/" THEN trimmed
       ELSE SubSeq(trimmed, 1, pos)

\* resolve_url
resolve_url(ex, url) ==
    IF ~ex.resolve_urls THEN url
    ELSE IF url = <<>> THEN url
    ELSE IF starts_with(url, <<"h", "t", "t", "p", ":", "/", "/">>) \/ starts_with(url, <<"h",
                               "t", "t", "p", "s", ":", "/", "/">>) THEN url
    ELSE IF starts_with(url, <<"/", "/">>) THEN url
    ELSE IF ~ex.base_url.some THEN url
    ELSE IF ~is_valid_base_url(ex.base_url.value) THEN url
    ELSE IF starts_with(url, <<"/">>) THEN get_origin(ex.base_url.value) \o url
    ELSE (trim_end_slashes(get_base_directory(ex.base_url.value)) \o <<"/">>) \o url

\* process_meta_tag
process_meta_tag(ex, attrs, metadata) ==
    LET property == find_attr(attrs, "property")
        name == find_attr(attrs, "name")
        content == find_attr(attrs, "content")
        key == IF property.some THEN property ELSE name
    IN IF ~content.some \/ ~key.some THEN metadata
       ELSE IF key.value \in {<<"o", "g", ":", "t", "i", "t", "l", "e">>, <<"t", "w", "i", "t",
                                "t", "e", "r", ":", "t", "i", "t", "l", "e">>}
       THEN [metadata EXCEPT !.title = Some(content.value)]
       ELSE IF key.value \in {<<"o", "g", ":", "d", "e", "s", "c", "r", "i", "p", "t", "i", "o",
                                "n">>, <<"d", "e", "s", "c", "r", "i", "p", "t", "i", "o", "n">>}
       THEN IF metadata.description.some THEN metadata
            ELSE [metadata EXCEPT !.description = Some(content.value)]
       ELSE IF key.value \in {<<"o", "g", ":", "i", "m", "a", "g", "e">>, <<"t", "w", "i", "t",
                                "t", "e", "r", ":", "i", "m", "a", "g", "e">>}
       THEN IF metadata.image.some THEN metadata
            ELSE [metadata EXCEPT !.image = Some(resolve_url(ex, content.value))]
       ELSE IF key.value = <<"o", "g", ":", "u", "r", "l">>
       THEN IF metadata.url.some THEN metadata
            ELSE [metadata EXCEPT !.url = Some(content.value)]
       ELSE IF key.value = <<"a", "u", "t", "h", "o", "r">>
       THEN IF metadata.author.some THEN metadata
            ELSE [metadata EXCEPT !.author = Some(content.value)]
       ELSE IF key.value = <<"a", "r", "t", "i", "c", "l", "e", ":", "p", "u", "b", "l", "i",
                             "s", "h", "e", "d", "_", "t", "i", "m", "e">>
       THEN IF metadata.published.some THEN metadata
            ELSE [metadata EXCEPT !.published = Some(content.value)]
       ELSE metadata

\* traverse_for_meta: the attribute lists of the meta elements at and below
\* node, in the order the traversal meets them (an element before its
\* children, the children from first to last)
RECURSIVE meta_tags(_)
meta_tags(node) ==
    LET RECURSIVE below(_)
        below(kids) == IF kids = <<>> THEN <<>> ELSE meta_tags(kids[1]) \o below(Tail(kids))
    IN IF node.kind = "Element"
       THEN (IF node.name = "meta" THEN <<node.attrs>> ELSE <<>>) \o below(node.kids)
       ELSE IF node.kind = "Document" THEN below(node.kids)
       ELSE <<>>

\* traverse_for_meta: process_meta_tag applied to each of them in turn
RECURSIVE process_meta_tags(_, _, _)
process_meta_tags(ex, tags, metadata) ==
    IF tags = <<>> THEN metadata
    ELSE process_meta_tags(ex, Tail(tags), process_meta_tag(ex, tags[1], metadata))

traverse_for_meta(ex, node, metadata) == process_meta_tags(ex, meta_tags(node), metadata)

\* extract_text_content
RECURSIVE extract_text_content(_)
extract_text_content(node) ==
    LET RECURSIVE below(_)
        below(kids) ==
            IF kids = <<>> THEN <<>> ELSE extract_text_content(kids[1]) \o below(Tail(kids))
    IN IF node.kind = "Text" THEN node.text
       ELSE IF node.kind \in {"Element", "Document"} THEN below(node.kids)
       ELSE <<>>

\* find_element_text_recursive
RECURSIVE find_element_text_recursive(_, _)
find_element_text_recursive(node, element_name) ==
    LET RECURSIVE below(_)
        below(kids) ==
            IF kids = <<>> THEN None
            ELSE LET found == find_element_text_recursive(kids[1], element_name)
                 IN IF found.some THEN found ELSE below(Tail(kids))
    IN IF node.kind = "Element" /\ node.name = element_name
       THEN Some(trim(extract_text_content(node)))
       ELSE IF node.kind \in {"Element", "Document"} THEN below(node.kids)
       ELSE None

\* find_link_href_recursive
RECURSIVE find_link_href_recursive(_, _)
find_link_href_recursive(node, rel) ==
    LET RECURSIVE below(_)
        below(kids) ==
            IF kids = <<>> THEN None
            ELSE LET found == find_link_href_recursive(kids[1], rel)
                 IN IF found.some THEN found ELSE below(Tail(kids))
    IN IF /\ node.kind = "Element" /\ node.name = "link"
          /\ \E i \in 1..Len(node.attrs) :
                 node.attrs[i].name = "rel" /\ node.attrs[i].value = rel
       THEN find_attr(node.attrs, "href")
       ELSE IF node.kind \in {"Element", "Document"} THEN below(node.kids)
       ELSE None

\* find_title and find_canonical
find_title(dom) == find_element_text_recursive(dom, "title")
find_canonical(dom) ==
    find_link_href_recursive(dom, <<"c", "a", "n", "o", "n", "i", "c", "a", "l">>)

\* MetadataExtractor::extract
extract(ex, dom) ==
    LET m1 == [PageMetadata_new EXCEPT !.title = find_title(dom)]
        m2 == traverse_for_meta(ex, dom, m1)
        canonical == find_canonical(dom)
    IN [m2 EXCEPT !.url = IF canonical.some THEN Some(resolve_url(ex, canonical.value))
                           ELSE ex.base_url]

(***************************************************************************)
(* The lowering engine (converter.rs).  A walk threads the record          *)
(*   [out, node_count, visited, err]                                       *)
(* through the handlers: the output buffer, the context's node counter,    *)
(* the number of nodes the walk has entered so far, and "Ok" or the error  *)
(* that ended the walk (the ? operator: once err is set nothing more is    *)
(* done).  self is the converter [options, security_validator]; cx is the  *)
(* context's clock [timeout, start_time, trav_start, per_node]: a walk     *)
(* that has entered n nodes reads the clock at trav_start + per_node * n.  *)
(***************************************************************************)
NewWalk == [out |-> <<>>, node_count |-> 0, visited |-> 0, err |-> "Ok"]

push_str(st, s) == [st EXCEPT !.out = @ \o s]
enter(st) == [st EXCEPT !.visited = @ + 1]
fail(st, e) == [st EXCEPT !.err = e]

\* has_body_content
has_body_content(self, output) ==
    IF output = <<>> THEN FALSE
    ELSE IF /\ self.options.include_front_matter
            /\ self.options.extract_metadata
            /\ starts_with(output, <<"-", "-", "-", LF>>)
            /\ find(SubSeq(output, 5, Len(output)), <<LF, "-", "-", "-", LF>>) >= 0
         THEN LET body(rest, end_offset) == SubSeq(rest, end_offset + 5 + 1, Len(rest))
                  any(b) == \E i \in 1..Len(b) : ~is_whitespace(b[i])
              IN any(body(SubSeq(output, 5, Len(output)),
                          find(SubSeq(output, 5, Len(output)), <<LF, "-", "-", "-", LF>>)))
         ELSE TRUE

\* the NodeData::Text arm of traverse_node and traverse_node_with_context
text_node(self, node, st) ==
    LET text == node.text
        leading(output) ==
            IF /\ is_whitespace(text[1])
               /\ has_body_content(self, output)
               /\ ~ends_with(output, <<SP>>)
            THEN Append(output, SP) ELSE output
        trailing(output) ==
            IF is_whitespace(text[Len(text)]) THEN Append(output, SP) ELSE output
        written(normalized_text) ==
            IF normalized_text = <<>> THEN st
            ELSE [st EXCEPT !.out = trailing(leading(st.out) \o normalized_text)]
    IN written(normalize_text(text))

\* "ensure blank line before" of the block handlers
ensure_blank_line_before(output) ==
    IF output # <<>> /\ ~ends_with(output, <<LF, LF>>)
    THEN IF ends_with(output, <<LF>>) THEN Append(output, LF)
         ELSE output \o <<LF, LF>>
    ELSE output

\* extract_text, entered for a child of a link
RECURSIVE extract_text(_, _)
RECURSIVE extract_text_children(_, _)
extract_text(node, st) ==
    LET s1 == enter(st)
    IN IF node.kind = "Text" THEN push_str(s1, node.text)
       ELSE IF node.kind = "Element" THEN extract_text_children(node.kids, s1)
       ELSE s1

extract_text_children(kids, st) ==
    IF kids = <<>> THEN st
    ELSE extract_text_children(Tail(kids), extract_text(kids[1], st))

\* extract_code_content; the node it is first called on has been entered
\* by the walk already, so only the descendants are entered here
RECURSIVE extract_code_content(_, _)
extract_code_content(node, st) ==
    LET RECURSIVE below(_, _)
        below(kids, s) ==
            IF kids = <<>> THEN s
            ELSE below(Tail(kids), extract_code_content(kids[1], enter(s)))
    IN IF node.kind = "Text" THEN push_str(st, node.text)
       ELSE IF node.kind = "Element" THEN below(node.kids, st)
       ELSE st

\* handle_link
handle_link(self, node, st) ==
    LET written(href, safe, normalized_text, s1) ==
            IF href.some /\ safe.some
            THEN IF normalized_text # <<>>
                 THEN push_str(s1, ((<<"[">> \o normalized_text) \o <<"]", "(">>)
                                    \o (safe.value \o <<")">>))
                 ELSE s1
            ELSE IF normalized_text # <<>> THEN push_str(s1, normalized_text) ELSE s1
        linked(href, walked) ==
            written(href, sanitize_url(href.value), normalize_text(walked.out),
                    [st EXCEPT !.visited = walked.visited])
    IN linked(find_attr(node.attrs, "href"),
              extract_text_children(node.kids, [st EXCEPT !.out = <<>>]))

\* handle_image
handle_image(self, node, st) ==
    LET written(src, alt, safe) ==
            IF src.some /\ safe.some
            THEN push_str(st, ((<<"!", "[">> \o alt.value) \o <<"]", "(">>)
                               \o (safe.value \o <<")">>))
            ELSE st
        image(src) == written(src, find_attr(node.attrs, "alt"), sanitize_url(src.value))
    IN image(find_attr(node.attrs, "src"))

\* handle_inline_code
handle_inline_code(self, node, st) ==
    LET written(walked) ==
            push_str([st EXCEPT !.visited = walked.visited], (<<BT>> \o walked.out) \o <<BT>>)
    IN written(extract_code_content(node, [st EXCEPT !.out = <<>>]))

\* handle_code_block: the loop over the classes of one class attribute
RECURSIVE language_of_classes(_, _)
language_of_classes(classes, language) ==
    IF classes = <<>> THEN language
    ELSE IF starts_with(classes[1], <<"l", "a", "n", "g", "u", "a", "g", "e", "-">>)
         THEN SubSeq(classes[1], Len(<<"l", "a", "n", "g", "u", "a", "g", "e",
                                       "-">>) + 1, Len(classes[1]))
    ELSE IF starts_with(classes[1], <<"l", "a", "n", "g", "-">>)
         THEN SubSeq(classes[1], Len(<<"l", "a", "n", "g", "-">>) + 1, Len(classes[1]))
    ELSE language_of_classes(Tail(classes), language)

\* handle_code_block: the loop over the attributes of one code child
RECURSIVE language_of_attrs(_, _)
language_of_attrs(attrs, language) ==
    IF attrs = <<>> THEN language
    ELSE IF attrs[1].name = "class"
         THEN LET found(l1) == IF l1 # <<>> THEN l1 ELSE language_of_attrs(Tail(attrs), l1)
              IN found(language_of_classes(split_whitespace(attrs[1].value), language))
         ELSE language_of_attrs(Tail(attrs), language)

\* handle_code_block: the loop over the children of the pre element
RECURSIVE language_of_children(_, _)
language_of_children(kids, language) ==
    IF kids = <<>> THEN language
    ELSE IF kids[1].kind = "Element" /\ kids[1].name = "code"
         THEN language_of_children(Tail(kids), language_of_attrs(kids[1].attrs, language))
         ELSE language_of_children(Tail(kids), language)

\* handle_code_block
handle_code_block(self, node, st) ==
    LET language == language_of_children(node.kids, <<>>)
        opened == push_str([st EXCEPT !.out = ensure_blank_line_before(st.out)],
                           (Fence \o language) \o <<LF>>)
        closed(s) == IF ~ends_with(s.out, <<LF>>) THEN push_str(s, <<LF>>) ELSE s
    IN push_str(closed(extract_code_content(node, opened)), Fence \o <<LF, LF>>)

\* the tags that handle_element and handle_element_with_context dispatch to
\* a handler of their own
HeadingLevel == [h1 |-> 1, h2 |-> 2, h3 |-> 3, h4 |-> 4, h5 |-> 5, h6 |-> 6]
HandledTags ==
    DOMAIN HeadingLevel
        \cup {"p", "a", "img", "ul", "ol", "li", "pre", "code", "strong", "b",
              "em", "i", "table", "script", "style", "noscript"}

RECURSIVE hashes(_)
hashes(level) == IF level = 0 THEN <<>> ELSE <<"#">> \o hashes(level - 1)

RECURSIVE indent(_)
indent(depth) == IF depth = 0 THEN <<>> ELSE <<SP, SP>> \o indent(depth - 1)

RECURSIVE traverse_node(_, _, _, _)
RECURSIVE traverse_children(_, _, _, _)
RECURSIVE handle_element(_, _, _, _, _)
RECURSIVE dispatch_element(_, _, _, _, _)
RECURSIVE handle_heading(_, _, _, _, _)
RECURSIVE handle_paragraph(_, _, _, _)
RECURSIVE handle_list(_, _, _, _, _)
RECURSIVE handle_list_items(_, _, _, _, _)
RECURSIVE handle_list_item_with_marker(_, _, _, _, _)
RECURSIVE list_item_children(_, _, _, _, _)
RECURSIVE handle_bold(_, _, _, _)
RECURSIVE handle_italic(_, _, _, _)
RECURSIVE handle_table(_, _, _, _)
RECURSIVE extract_cells(_, _, _, _)

\* traverse_node
traverse_node(self, node, st, depth) ==
    LET s1 == enter(st)
    IN IF node.kind = "Document" THEN traverse_children(self, node.kids, s1, depth)
       ELSE IF node.kind = "Element" THEN handle_element(self, node, node.name, s1, depth)
       ELSE IF node.kind = "Text" THEN text_node(self, node, s1)
       ELSE s1

\* for child in node.children: self.traverse_node(child, output, depth)?
traverse_children(self, kids, st, depth) ==
    IF kids = <<>> \/ st.err # "Ok" THEN st
    ELSE traverse_children(self, Tail(kids), traverse_node(self, kids[1], st, depth), depth)

\* handle_element
handle_element(self, node, tag_name, st, depth) ==
    IF check_element(tag_name) = "Remove" THEN st
    ELSE IF validate_depth(self.security_validator, depth) = "Err"
         THEN fail(st, "InvalidInput")
    ELSE IF tag_name \in HandledTags
         THEN dispatch_element(self, node, tag_name, st, depth)
    ELSE traverse_children(self, node.kids, st, depth + 1)

\* the match on tag_name that handle_element and handle_element_with_context
\* share: every arm but the default one
dispatch_element(self, node, tag_name, st, depth) ==
    IF tag_name \in DOMAIN HeadingLevel
    THEN handle_heading(self, node, HeadingLevel[tag_name], st, depth)
    ELSE IF tag_name = "p" THEN handle_paragraph(self, node, st, depth)
    ELSE IF tag_name = "a" THEN handle_link(self, node, st)
    ELSE IF tag_name = "img" THEN handle_image(self, node, st)
    ELSE IF tag_name = "ul" THEN handle_list(self, node, st, 0, FALSE)
    ELSE IF tag_name = "ol" THEN handle_list(self, node, st, 0, TRUE)
    ELSE IF tag_name = "li" THEN handle_list_item_with_marker(self, node, st, 0, FALSE)
    ELSE IF tag_name = "pre" THEN handle_code_block(self, node, st)
    ELSE IF tag_name = "code" THEN handle_inline_code(self, node, st)
    ELSE IF tag_name \in {"strong", "b"} THEN handle_bold(self, node, st, depth)
    ELSE IF tag_name \in {"em", "i"} THEN handle_italic(self, node, st, depth)
    ELSE IF tag_name = "table" THEN handle_table(self, node, st, depth)
    ELSE st

\* handle_heading
handle_heading(self, node, level, st, depth) ==
    LET s1 == push_str([st EXCEPT !.out = ensure_blank_line_before(st.out)],
                       hashes(level) \o <<SP>>)
        start_len == Len(s1.out)
        written(s2) ==
            IF s2.err # "Ok" THEN s2
            ELSE [s2 EXCEPT !.out =
                     (SubSeq(s2.out, 1, start_len)
                         \o normalize_text(SubSeq(s2.out, start_len + 1, Len(s2.out))))
                         \o <<LF, LF>>]
    IN written(traverse_children(self, node.kids, s1, depth + 1))

\* handle_paragraph
handle_paragraph(self, node, st, depth) ==
    LET s1 == [st EXCEPT !.out = ensure_blank_line_before(st.out)]
        start_len == Len(s1.out)
        written(s2) ==
            IF s2.err # "Ok" THEN s2
            ELSE IF Len(s2.out) > start_len THEN push_str(s2, <<LF, LF>>)
            ELSE s2
    IN written(traverse_children(self, node.kids, s1, depth + 1))

\* handle_list
handle_list(self, node, st, depth, ordered) ==
    LET s1 == [st EXCEPT !.out = ensure_blank_line_before(st.out)]
        written(s2) ==
            IF s2.err # "Ok" THEN s2
            ELSE IF ~ends_with(s2.out, <<LF, LF>>) THEN push_str(s2, <<LF>>)
            ELSE s2
    IN written(handle_list_items(self, node.kids, s1, depth, ordered))

\* handle_list: the loop over the children, of which only the li elements
\* are processed
handle_list_items(self, kids, st, depth, ordered) ==
    IF kids = <<>> \/ st.err # "Ok" THEN st
    ELSE IF kids[1].kind = "Element" /\ kids[1].name = "li"
         THEN handle_list_items(self, Tail(kids),
                  handle_list_item_with_marker(self, kids[1], enter(st), depth, ordered),
                  depth, ordered)
         ELSE handle_list_items(self, Tail(kids), st, depth, ordered)

\* handle_list_item_with_marker (handle_list_item is this with depth as given
\* and the unordered marker)
handle_list_item_with_marker(self, node, st, depth, ordered) ==
    LET s1 == push_str(st, indent(depth)
                           \o (IF ordered THEN <<"1", ".", SP>> ELSE <<"-", SP>>))
        written(s2) ==
            IF s2.err # "Ok" THEN s2
            ELSE IF ~ends_with(s2.out, <<LF>>) THEN push_str(s2, <<LF>>)
            ELSE s2
    IN written(list_item_children(self, node.kids, s1, depth, Len(s1.out)))

\* handle_list_item_with_marker: the loop over the item's children
list_item_children(self, kids, st, depth, start_len) ==
    IF kids = <<>> \/ st.err # "Ok" THEN st
    ELSE LET child == kids[1]
             s1 == IF Len(st.out) > start_len /\ ~ends_with(st.out, <<LF>>)
                   THEN push_str(st, <<LF>>) ELSE st
         IN list_item_children(self, Tail(kids),
                IF child.kind = "Element" /\ child.name \in {"ul", "ol"}
                THEN handle_list(self, child, enter(s1), depth + 1, child.name = "ol")
                ELSE traverse_node(self, child, st, depth + 1),
                depth, start_len)

\* handle_bold
handle_bold(self, node, st, depth) ==
    LET written(s1) == IF s1.err # "Ok" THEN s1 ELSE push_str(s1, <<"*", "*">>)
    IN written(traverse_children(self, node.kids, push_str(st, <<"*", "*">>), depth + 1))

\* handle_italic
handle_italic(self, node, st, depth) ==
    LET written(s1) == IF s1.err # "Ok" THEN s1 ELSE push_str(s1, <<"*">>)
    IN written(traverse_children(self, node.kids, push_str(st, <<"*">>), depth + 1))

\* extract_alignment
extract_alignment(attrs) ==
    LET by_align(align_lower) ==
            IF align_lower = <<"c", "e", "n", "t", "e", "r">> THEN "Center"
            ELSE IF align_lower = <<"r", "i", "g", "h", "t">> THEN "Right"
            ELSE "Left"
        by_style(has_text_align, style) ==
            IF has_text_align /\ contains(style, <<"c", "e", "n", "t", "e", "r">>)
            THEN "Center"
            ELSE IF has_text_align /\ contains(style, <<"r", "i", "g", "h", "t">>)
            THEN "Right"
            ELSE "Left"
        lowered(style) ==
            by_style(contains(style, <<"t", "e", "x", "t", "-", "a", "l", "i", "g", "n">>),
                     style)
        aligned(align) ==
            IF align.some THEN by_align(to_lowercase(align.value))
            ELSE lowered(to_lowercase(find_attr(attrs, "style").value))
    IN aligned(find_attr(attrs, "align"))

\* extract_table_row_as_header and extract_table_row: the loop over the
\* children of a tr; tb is [headers, alignments, rows, st], the cells are
\* appended to acc.cells and their alignments to acc.alignments
extract_cells(self, kids, acc, st) ==
    IF kids = <<>> \/ st.err # "Ok"
    THEN [cells |-> acc.cells, alignments |-> acc.alignments, st |-> st]
    ELSE IF kids[1].kind = "Element" /\ kids[1].name \in {"th", "td"}
         THEN LET cell(walked) ==
                      extract_cells(self, Tail(kids),
                          [cells |-> Append(acc.cells, trim(walked.out)),
                           alignments |-> Append(acc.alignments,
                                                 extract_alignment(kids[1].attrs))],
                          [walked EXCEPT !.out = st.out])
              IN cell(traverse_children(self, kids[1].kids,
                                        [enter(st) EXCEPT !.out = <<>>], 0))
         ELSE extract_cells(self, Tail(kids), acc, st)

\* the tr elements among the children of a thead, tbody or table
RECURSIVE rows_of(_)
rows_of(kids) ==
    IF kids = <<>> THEN <<>>
    ELSE IF kids[1].kind = "Element" /\ kids[1].name = "tr"
         THEN <<kids[1]>> \o rows_of(Tail(kids))
         ELSE rows_of(Tail(kids))

\* extract_table_row_as_header, for one tr
header_row(self, tr, tb) ==
    LET row(r) == [tb EXCEPT !.headers = r.cells, !.alignments = r.alignments, !.st = r.st]
    IN row(extract_cells(self, tr.kids,
                         [cells |-> tb.headers, alignments |-> tb.alignments],
                         enter(tb.st)))

\* extract_table_rows: every tr of trs becomes a data row
RECURSIVE extract_table_rows(_, _, _)
extract_table_rows(self, trs, tb) ==
    IF trs = <<>> \/ tb.st.err # "Ok" THEN tb
    ELSE LET row(r) == extract_table_rows(self, Tail(trs),
                           [tb EXCEPT !.rows = Append(@, r.cells), !.st = r.st])
         IN row(extract_cells(self, trs[1].kids, [cells |-> <<>>, alignments |-> <<>>],
                              enter(tb.st)))

\* extract_table_header: the first tr of the thead, if any
extract_table_header(self, thead, tb) ==
    IF rows_of(thead.kids) = <<>> THEN tb
    ELSE header_row(self, rows_of(thead.kids)[1], tb)

\* handle_table: the loop over the children of the table
RECURSIVE table_children(_, _, _)
table_children(self, kids, tb) ==
    IF kids = <<>> \/ tb.st.err # "Ok" THEN tb
    ELSE LET child == kids[1]
             trs == rows_of(child.kids)
             tb1 == [tb EXCEPT !.st = enter(@)]
         IN table_children(self, Tail(kids),
                IF child.kind # "Element" THEN tb
                ELSE IF child.name = "thead" THEN extract_table_header(self, child, tb1)
                ELSE IF child.name = "tbody"
                THEN IF tb.headers = <<>> /\ trs # <<>>
                     \* the ? on the header row: the rows are skipped after an error
                     THEN extract_table_rows(self, Tail(trs), header_row(self, trs[1], tb1))
                     ELSE extract_table_rows(self, trs, tb1)
                ELSE IF child.name = "tr"
                THEN IF tb.headers = <<>> THEN header_row(self, child, tb)
                     ELSE extract_table_rows(self, <<child>>, tb)
                ELSE tb)

\* write_gfm_table: the header row, the separator row and the data rows,
\* each padded or cut to the width of the header
write_gfm_table(headers, alignments, rows) ==
    LET RECURSIVE gfm_cells(_, _)
        gfm_cells(cells, n) ==
            IF cells = <<>> \/ n = 0 THEN <<>>
            ELSE ((<<SP>> \o cells[1]) \o <<SP, "|">>) \o gfm_cells(Tail(cells), n - 1)
        RECURSIVE gfm_padding(_)
        gfm_padding(n) == IF n <= 0 THEN <<>> ELSE <<SP, SP, "|">> \o gfm_padding(n - 1)
        RECURSIVE gfm_separator(_)
        gfm_separator(as) ==
            IF as = <<>> THEN <<>>
            ELSE (<<SP>> \o (IF as[1] = "Center" THEN <<":", "-", "-", "-", ":">>
                             ELSE IF as[1] = "Right" THEN <<"-", "-", "-", ":">>
                             ELSE <<"-", "-", "-">>))
                 \o (<<SP, "|">> \o gfm_separator(Tail(as)))
        RECURSIVE gfm_rows(_, _)
        gfm_rows(rs, width) ==
            IF rs = <<>> THEN <<>>
            ELSE ((<<"|">> \o gfm_cells(rs[1], width))
                      \o (gfm_padding(width - Len(rs[1])) \o <<LF>>))
                 \o gfm_rows(Tail(rs), width)
    IN ((<<"|">> \o gfm_cells(headers, Len(headers))) \o <<LF>>)
       \o (((<<"|">> \o gfm_separator(alignments)) \o <<LF>>)
           \o gfm_rows(rows, Len(headers)))

RECURSIVE pad_left(_, _)
pad_left(alignments, n) ==
    IF Len(alignments) >= n THEN alignments ELSE pad_left(Append(alignments, "Left"), n)

\* handle_table
handle_table(self, node, st, depth) ==
    IF self.options.flavor # "GitHubFlavoredMarkdown"
    THEN traverse_children(self, node.kids, st, depth + 1)
    ELSE LET s1 == [st EXCEPT !.out = ensure_blank_line_before(st.out)]
             closed(s2) ==
                 IF ~ends_with(s2.out, <<LF, LF>>) THEN push_str(s2, <<LF>>) ELSE s2
             written(tb) ==
                 IF tb.st.err # "Ok" \/ tb.headers = <<>> THEN tb.st
                 ELSE closed(push_str(tb.st,
                                 write_gfm_table(tb.headers,
                                     pad_left(tb.alignments, Len(tb.headers)), tb.rows)))
         IN written(table_children(self, node.kids,
                        [headers |-> <<>>, alignments |-> <<>>, rows |-> <<>>, st |-> s1]))

\* the clock as a walk reads it: entering a node takes cx.per_node ticks
now_of(cx, st) == cx.trav_start + cx.per_node * st.visited

RECURSIVE traverse_node_with_context(_, _, _, _, _)
RECURSIVE traverse_children_with_context(_, _, _, _, _)
RECURSIVE handle_element_with_context(_, _, _, _, _, _)

\* traverse_node_with_context
traverse_node_with_context(self, node, st, depth, cx) ==
    LET r == increment_and_check(
                 [start_time |-> cx.start_time, timeout |-> cx.timeout,
                  node_count |-> st.node_count],
                 now_of(cx, st))
        s1 == [enter(st) EXCEPT !.node_count = r.ctx.node_count]
    IN IF r.ret # "Ok" THEN fail(s1, r.ret)
       ELSE IF node.kind = "Document"
       THEN traverse_children_with_context(self, node.kids, s1, depth, cx)
       ELSE IF node.kind = "Element"
       THEN handle_element_with_context(self, node, node.name, s1, depth, cx)
       ELSE IF node.kind = "Text" THEN text_node(self, node, s1)
       ELSE s1

\* for child in node.children: self.traverse_node_with_context(child, ..)?
traverse_children_with_context(self, kids, st, depth, cx) ==
    IF kids = <<>> \/ st.err # "Ok" THEN st
    ELSE traverse_children_with_context(self, Tail(kids),
             traverse_node_with_context(self, kids[1], st, depth, cx), depth, cx)

\* handle_element_with_context
handle_element_with_context(self, node, tag_name, st, depth, cx) ==
    IF check_element(tag_name) = "Remove" THEN st
    ELSE IF validate_depth(self.security_validator, depth) = "Err"
         THEN fail(st, "InvalidInput")
    ELSE IF tag_name \in HandledTags
         THEN dispatch_element(self, node, tag_name, st, depth)
    ELSE traverse_children_with_context(self, node.kids, st, depth + 1, cx)

\* write_yaml_string
RECURSIVE yaml_escape(_)
yaml_escape(value) ==
    IF value = <<>> THEN <<>>
    ELSE (IF value[1] = "\"" THEN <<"\\", "\"">>
          ELSE IF value[1] = "\\" THEN <<"\\", "\\">>
          ELSE IF value[1] = LF THEN <<"\\", "n">>
          ELSE IF value[1] = CR THEN <<"\\", "r">>
          ELSE IF value[1] = TAB THEN <<"\\", "t">>
          ELSE <<value[1]>>) \o yaml_escape(Tail(value))

write_yaml_string(value) == (<<"\"">> \o yaml_escape(value)) \o <<"\"">>

\* write_front_matter: one field, written when it has a non-empty value
front_matter_field(key, field) ==
    IF field.some /\ field.value # <<>>
    THEN (key \o write_yaml_string(field.value)) \o <<LF>>
    ELSE <<>>

\* a mutant of write_front_matter: nothing is written when no field has a value
write_front_matter_unless_empty(metadata) ==
    IF \A f \in {"title", "url", "description", "image", "author", "published"} :
           ~metadata[f].some \/ metadata[f].value = <<>>
    THEN <<>>
    ELSE
        <<"-", "-", "-", LF>>
        \o front_matter_field(<<"t", "i", "t", "l", "e", ":", " ">>, metadata.title)
        \o front_matter_field(<<"u", "r", "l", ":", " ">>, metadata.url)
        \o front_matter_field(<<"d", "e", "s", "c", "r", "i", "p", "t", "i", "o", "n", ":",
                                " ">>, metadata.description)
        \o front_matter_field(<<"i", "m", "a", "g", "e", ":", " ">>, metadata.image)
        \o front_matter_field(<<"a", "u", "t", "h", "o", "r", ":", " ">>, metadata.author)
        \o front_matter_field(<<"p", "u", "b", "l", "i", "s", "h", "e", "d", ":",
                                " ">>, metadata.published)
        \o <<"-", "-", "-", LF, LF>>

\* write_front_matter
write_front_matter(metadata) ==
    <<"-", "-", "-", LF>>
    \o front_matter_field(<<"t", "i", "t", "l", "e", ":", " ">>, metadata.title)
    \o front_matter_field(<<"u", "r", "l", ":", " ">>, metadata.url)
    \o front_matter_field(<<"d", "e", "s", "c", "r", "i", "p", "t", "i", "o", "n", ":",
                            " ">>, metadata.description)
    \o front_matter_field(<<"i", "m", "a", "g", "e", ":", " ">>, metadata.image)
    \o front_matter_field(<<"a", "u", "t", "h", "o", "r", ":", " ">>, metadata.author)
    \o front_matter_field(<<"p", "u", "b", "l", "i", "s", "h", "e", "d", ":",
                            " ">>, metadata.published)
    \o <<"-", "-", "-", LF, LF>>

\* MarkdownConverter::with_options, with the validator it is given
MarkdownConverter(options, security_validator) ==
    [options |-> options, security_validator |-> security_validator]

\* convert_with_context, called when the clock shows tm.start on the context
\* c; metadata extraction takes tm.meta ticks, entering a node tm.per_node
\* and normalization tm.norm.  The result is what the call returned
\* (ret, markdown), the deadline checks it made at its phase boundaries
\* (checks: where, when and with what result) and the walk's counters.
convert_with_context(self, dom, c, tm) ==
    LET front == self.options.include_front_matter /\ self.options.extract_metadata
        extractor == MetadataExtractor_new(self.options.base_url,
                                           self.options.resolve_relative_urls)
        t1 == IF front THEN tm.start + tm.meta ELSE tm.start
        cx == [start_time |-> c.start_time, timeout |-> c.timeout,
               trav_start |-> t1, per_node |-> tm.per_node]
        check(at, now) == [at |-> at, now |-> now, ret |-> check_timeout(c, now)]
        out0 == IF front THEN write_front_matter(extract(extractor, dom)) ELSE <<>>
        c1 == IF front THEN <<check("metadata", t1)>> ELSE <<>>
        done(walk, ret, md, checks) ==
            [ret |-> ret, markdown |-> md, checks |-> checks, raw |-> walk.out,
             node_count |-> walk.node_count, visited |-> walk.visited]
        \* after normalize_output
        after_normalize(walk, c3) ==
            IF c3[Len(c3)].ret # "Ok" THEN done(walk, "Timeout", <<>>, c3)
            ELSE done(walk, "Ok", normalize_output(walk.out), c3)
        \* after the traversal
        after_traversal(walk, c2) ==
            IF walk.err # "Ok" THEN done(walk, walk.err, <<>>, c1)
            ELSE IF c2[Len(c2)].ret # "Ok" THEN done(walk, "Timeout", <<>>, c2)
            ELSE after_normalize(walk,
                     Append(c2, check("normalization", now_of(cx, walk) + tm.norm)))
        \* the traversal is not reached when the deadline has passed after the
        \* front matter
        traversal(walk) ==
            IF front /\ c1[1].ret # "Ok" THEN
                [ret |-> "Timeout", markdown |-> <<>>, checks |-> c1, raw |-> out0,
                 node_count |-> c.node_count, visited |-> 0]
            ELSE after_traversal(walk, Append(c1, check("traversal", now_of(cx, walk))))
    IN traversal(traverse_node_with_context(self, dom,
                     [NewWalk EXCEPT !.out = out0, !.node_count = c.node_count], 0, cx))

(***************************************************************************)
(* The C boundary (ffi.rs).  A pointer is an address: NULL, DANGLING (what  *)
(* Box::into_raw gives for an empty boxed slice: no allocation behind it), *)
(* CALLER (an object of the caller), WILD (whatever an uninitialised field *)
(* holds) or address(i), the i-th buffer this library allocated.  A        *)
(* fallible call returns [ok, value, err]; an error is [kind, message].    *)
(***************************************************************************)
NULL == 0
DANGLING == NULL + 1
CALLER == NULL + 2
WILD == NULL + 3
address(i) == WILD + i
is_null(ptr) == ptr = NULL

ERROR_SUCCESS == 0
ERROR_PARSE == 1
ERROR_ENCODING == 2
ERROR_TIMEOUT == 3
ERROR_MEMORY_LIMIT == 4
ERROR_INVALID_INPUT == 5
ERROR_INTERNAL == 99

\* ConversionError::code
code(e) ==
    CASE e.kind = "ParseError" -> ERROR_PARSE
      [] e.kind = "EncodingError" -> ERROR_ENCODING
      [] e.kind = "Timeout" -> ERROR_TIMEOUT
      [] e.kind = "MemoryLimit" -> ERROR_MEMORY_LIMIT
      [] e.kind = "InvalidInput" -> ERROR_INVALID_INPUT
      [] e.kind = "InternalError" -> ERROR_INTERNAL

\* Display for ConversionError
to_string(e) ==
    CASE e.kind = "ParseError" -> <<"P", "a", "r", "s", "e", " ", "e", "r", "r", "o", "r", ":",
                                    " ">> \o e.message
      [] e.kind = "EncodingError" -> <<"E", "n", "c", "o", "d", "i", "n", "g", " ", "e", "r",
                                       "r", "o", "r", ":", " ">> \o e.message
      [] e.kind = "Timeout" -> <<"C", "o", "n", "v", "e", "r", "s", "i", "o", "n", " ", "t",
                                 "i", "m", "e", "o", "u", "t", " ", "e", "x", "c", "e", "e",
                                 "d", "e", "d">>
      [] e.kind = "MemoryLimit" -> <<"M", "e", "m", "o", "r", "y", " ", "l", "i", "m", "i", "t",
                                     " ", "e", "x", "c", "e", "e", "d", "e", "d">>
      [] e.kind = "InvalidInput" -> <<"I", "n", "v", "a", "l", "i", "d", " ", "i", "n", "p",
                                      "u", "t", ":", " ">> \o e.message
      [] e.kind = "InternalError" -> <<"I", "n", "t", "e", "r", "n", "a", "l", " ", "e", "r",
                                       "r", "o", "r", ":", " ">> \o e.message

Ok(v) == [ok |-> TRUE, value |-> v, err |-> [kind |-> "none", message |-> <<>>]]
Err(kind, message) == [ok |-> FALSE, value |-> <<>>, err |-> [kind |-> kind, message |-> message]]

\* a mutant of into_raw: the bytes are kept in one buffer of the process
into_raw_static(h, bytes) ==
    IF bytes = <<>> THEN [heap |-> h, ptr |-> DANGLING]
    ELSE [heap |-> IF h = <<>> THEN <<[bytes |-> bytes, frees |-> 0]>>
                   ELSE [h EXCEPT ![1] = [bytes |-> bytes, frees |-> 0]],
          ptr |-> address(1)]

\* Box::into_raw of a boxed slice holding bytes: the heap afterwards and the
\* pointer (an empty slice allocates nothing)
into_raw(h, bytes) ==
    IF bytes = <<>> THEN [heap |-> h, ptr |-> DANGLING]
    ELSE [heap |-> Append(h, [bytes |-> bytes, frees |-> 0]), ptr |-> address(Len(h) + 1)]

\* a mutant of reset_result: the record is left as it was
reset_result_skipped(r) == r

\* reset_result
reset_result(r) ==
    [markdown |-> NULL, markdown_len |-> 0, etag |-> NULL, etag_len |-> 0,
     token_estimate |-> 0, error_code |-> ERROR_SUCCESS,
     error_message |-> NULL, error_len |-> 0]

\* set_error_result: the record and the heap afterwards
set_error_result(r, h, error_code, error_message) ==
    LET a == into_raw(h, error_message)
    IN [record |-> [r EXCEPT !.error_code = error_code,
                             !.error_len = Len(error_message),
                             !.error_message = a.ptr],
        heap |-> a.heap]

\* set_success_result: the record and the heap afterwards
set_success_result(r, h, output) ==
    LET m == into_raw(h, output.markdown)
        e == IF output.etag.some THEN into_raw(m.heap, output.etag.value)
             ELSE [heap |-> m.heap, ptr |-> NULL]
    IN [record |-> [markdown |-> m.ptr, markdown_len |-> Len(output.markdown),
                    etag |-> e.ptr,
                    etag_len |-> IF output.etag.some THEN Len(output.etag.value) ELSE 0,
                    token_estimate |-> output.token_estimate,
                    error_code |-> ERROR_SUCCESS,
                    error_message |-> NULL, error_len |-> 0],
        heap |-> e.heap]

\* required_ref
required_ref(ptr, name) ==
    IF is_null(ptr) THEN Err("InvalidInput", name \o <<" ", "p", "o", "i", "n", "t", "e", "r",
                                                       " ", "i", "s", " ", "N", "U", "L", "L">>)
    ELSE Ok(ptr)

\* &[]: the empty slice; a slice is [len, decodes, dom], its length and what
\* the parser makes of its bytes
EmptySlice == [len |-> 0, decodes |-> TRUE, dom |-> Document(<<>>)]

\* a mutant of required_bytes: the pointer is tested before the length
required_bytes_pointer_first(ptr, len, bytes, name) ==
    IF is_null(ptr) THEN Err("InvalidInput", name \o <<" ", "p", "o", "i", "n", "t", "e", "r",
                                                       " ", "i", "s", " ", "N", "U", "L", "L">>)
    ELSE IF len = 0 THEN Ok(EmptySlice)
    ELSE Ok(bytes)

\* required_bytes: bytes is what the len bytes at ptr hold
required_bytes(ptr, len, bytes, name) ==
    IF len = 0 THEN Ok(EmptySlice)
    ELSE IF is_null(ptr) THEN Err("InvalidInput", name \o <<" ", "p", "o", "i", "n", "t", "e",
                                                            "r", " ", "i", "s", " ", "N", "U",
                                                            "L", "L">>)
    ELSE Ok(bytes)

\* optional_utf8: field is [ptr, len, utf8, str], the last two telling
\* whether the bytes are valid UTF-8 and the string they encode
optional_utf8(field, field_name) ==
    IF field.len = 0 THEN Ok(None)
    ELSE IF is_null(field.ptr)
    THEN Err("InvalidInput",
             ((field_name \o <<"_", "l", "e", "n", " ", ">", " ", "0", " ", "w", "i", "t", "h",
                               " ", "N", "U", "L", "L", " ">>) \o field_name) \o <<" ", "p",
                               "o", "i", "n", "t", "e", "r">>)
    ELSE Ok(IF field.utf8 THEN Some(field.str) ELSE None)

\* TokenEstimator::estimate, with the default of 4 characters per token
CharsPerToken == 4
estimate(markdown) == (Len(markdown) + CharsPerToken - 1) \div CharsPerToken

\* hex::encode
RECURSIVE hex_encode(_)
hex_encode(bytes) ==
    LET HexDigits == <<"0", "1", "2", "3", "4", "5", "6", "7",
                       "8", "9", "a", "b", "c", "d", "e", "f">>
    IN IF bytes = <<>> THEN <<>>
       ELSE <<HexDigits[(bytes[1] \div 16) + 1], HexDigits[(bytes[1] % 16) + 1]>>
                \o hex_encode(Tail(bytes))

\* blake3::hash, of which generate keeps the first 16 bytes: the digest is
\* computed outside this crate, and the model keeps of it that it is 16
\* bytes determined by the input
EtagHashBytes == 16
hash_prefix(markdown) == [i \in 1..EtagHashBytes |-> (Len(markdown) * 7 + i * 13) % 256]

\* a mutant of generate: the hex digits without the quotes around them
generate_unquoted(markdown) == hex_encode(hash_prefix(markdown))

\* ETagGenerator::generate
generate(markdown) == (<<"\"">> \o hex_encode(hash_prefix(markdown))) \o <<"\"">>

\* parse_html_with_charset: html.decodes tells whether the bytes decode
\* under the detected charset, html.dom is the tree html5ever builds
parse_html_with_charset(html, content_type) ==
    IF html.len = 0 THEN Err("InvalidInput", <<"H", "T", "M", "L", " ", "i", "n", "p", "u", "t",
                                               " ", "i", "s", " ", "e", "m", "p", "t", "y">>)
    ELSE IF ~html.decodes THEN Err("EncodingError", <<"I", "n", "v", "a", "l", "i", "d", " ",
                                                      "U", "T", "F", "-", "8">>)
    ELSE Ok(html.dom)

\* the error a failed conversion returns
conversion_error(ret) ==
    IF ret = "Timeout" THEN [kind |-> "Timeout", message |-> <<>>]
    ELSE [kind |-> "InvalidInput", message |-> <<"H", "T", "M", "L", " ", "n", "e", "s", "t",
                                                 "i", "n", "g", " ", "d", "e", "p", "t", "h",
                                                 " ", "e", "x", "c", "e", "e", "d", "s", " ",
                                                 "m", "a", "x", "i", "m", "u", "m", " ", "a",
                                                 "l", "l", "o", "w", "e", "d", " ", "d", "e",
                                                 "p", "t", "h">>]

\* convert_inner, called at clock 0.  env tells how the call goes: whether
\* the parser or the engine panics, how long parsing takes (parse), how long
\* it is from the context's creation to the check after parsing (gap), and
\* the clock of convert_with_context.  The result is
\* [ok, value, err, panicked, ctx, checks]: ctx the context created (if any)
\* and checks the deadline checks made at the phase boundaries.
convert_inner(handle_ref, html_slice, options_ref, env) ==
    LET content_type_str == optional_utf8(options_ref.content_type, <<"c", "o", "n", "t", "e",
                                                                      "n", "t", "_", "t", "y",
                                                                      "p", "e">>)
        base_url_str == optional_utf8(options_ref.base_url, <<"b", "a", "s", "e", "_", "u", "r",
                                                              "l">>)
        out(r, panicked, c, checks) ==
            [ok |-> r.ok, value |-> r.value, err |-> r.err,
             panicked |-> panicked, ctx |-> c, checks |-> checks]
        output(markdown) ==
            [markdown |-> markdown,
             etag |-> IF options_ref.generate_etag # 0 THEN Some(generate(markdown))
                      ELSE None,
             token_estimate |-> IF options_ref.estimate_tokens # 0 THEN estimate(markdown)
                                ELSE 0]
        conv_options ==
            [flavor |-> IF options_ref.flavor = 1 THEN "GitHubFlavoredMarkdown"
                        ELSE "CommonMark",
             include_front_matter |-> options_ref.front_matter # 0,
             extract_metadata |-> options_ref.front_matter # 0,
             base_url |-> base_url_str.value,
             resolve_relative_urls |-> base_url_str.value.some]
        converter == MarkdownConverter(conv_options, SecurityValidator_new)
        dom == parse_html_with_charset(html_slice, content_type_str.value)
        c == ConversionContext_new(options_ref.timeout_ms, env.parse)
        after_parse == [at |-> "parse", now |-> env.parse + env.gap,
                        ret |-> check_timeout(c, env.parse + env.gap)]
        \* conv is what converter.convert_with_context returns, if it is reached
        returned(conv) ==
            IF ~content_type_str.ok THEN out(content_type_str, FALSE, NoContext, <<>>)
            ELSE IF ~base_url_str.ok THEN out(base_url_str, FALSE, NoContext, <<>>)
            ELSE IF html_slice.len = 0 THEN out(Ok(output(<<>>)), FALSE, NoContext, <<>>)
            ELSE IF env.panics THEN out(Err("none", <<>>), TRUE, NoContext, <<>>)
            ELSE IF ~dom.ok THEN out(dom, FALSE, NoContext, <<>>)
            ELSE IF after_parse.ret # "Ok"
            THEN out(Err("Timeout", <<>>), FALSE, c, <<after_parse>>)
            ELSE IF conv.ret # "Ok"
            THEN out([ok |-> FALSE, value |-> <<>>, err |-> conversion_error(conv.ret)],
                     FALSE, [c EXCEPT !.node_count = conv.node_count],
                     <<after_parse>> \o conv.checks)
            ELSE out(Ok(output(conv.markdown)), FALSE,
                     [c EXCEPT !.node_count = conv.node_count],
                     <<after_parse>> \o conv.checks)
    IN returned(convert_with_context(converter, dom.value, c,
                    [start |-> env.parse + env.gap, meta |-> env.meta,
                     per_node |-> env.per_node, norm |-> env.norm]))

\* a mutant of markdown_convert: the test of the result pointer is inverted,
\* so the call returns at once when it is given a record
markdown_convert_returns_early(r, h, a, env) ==
    [record |-> r, heap |-> h,
     inner |-> [ok |-> FALSE, value |-> <<>>, err |-> [kind |-> "none", message |-> <<>>],
                panicked |-> FALSE, ctx |-> NoContext, checks |-> <<>>]]

\* markdown_convert: the record and the heap after the call, and what
\* convert_inner did (inner), for a call with the arguments a:
\* [handle, html, html_len, bytes, options, options_ref, result] and env
markdown_convert(r, h, a, env) ==
    LET r0 == reset_result(r)
        handle_ref == required_ref(a.handle, <<"C", "o", "n", "v", "e", "r", "t", "e", "r", " ",
                                               "h", "a", "n", "d", "l", "e">>)
        options_ref == required_ref(a.options, <<"O", "p", "t", "i", "o", "n", "s">>)
        html_slice == required_bytes(a.html, a.html_len, a.bytes, <<"H", "T", "M", "L">>)
        early(e) == [ok |-> FALSE, value |-> <<>>, err |-> e.err,
                     panicked |-> FALSE, ctx |-> NoContext, checks |-> <<>>]
        \* the closure that catch_unwind runs: converted is what convert_inner
        \* returns, if it is reached
        closure(converted) ==
            IF ~handle_ref.ok THEN early(handle_ref)
            ELSE IF ~options_ref.ok THEN early(options_ref)
            ELSE IF ~html_slice.ok THEN early(html_slice)
            ELSE converted
        \* the match on what catch_unwind returned
        set(inner) ==
            IF inner.panicked
            THEN set_error_result(r0, h, ERROR_INTERNAL, <<"I", "n", "t", "e", "r", "n", "a",
                                                           "l", " ", "p", "a", "n", "i", "c",
                                                           " ", "d", "u", "r", "i", "n", "g",
                                                           " ", "c", "o", "n", "v", "e", "r",
                                                           "s", "i", "o", "n">>)
            ELSE IF inner.ok THEN set_success_result(r0, h, inner.value)
            ELSE set_error_result(r0, h, code(inner.err), to_string(inner.err))
        populated(inner, s) == [record |-> s.record, heap |-> s.heap, inner |-> inner]
        caught(inner) == populated(inner, set(inner))
    IN IF is_null(a.result) THEN [record |-> r, heap |-> h, inner |-> early(Ok(<<>>))]
       ELSE caught(closure(convert_inner(a.handle, html_slice.value, a.options_ref, env)))

\* a mutant of free_buffer: the buffer is released and the field keeps its
\* pointer
free_buffer_keeps_pointer(r, h, ptr_field, len_field) ==
    IF is_null(r[ptr_field]) THEN [record |-> r, heap |-> h]
    ELSE [record |-> [r EXCEPT ![len_field] = 0],
          heap |-> IF (r[ptr_field] - WILD) \in DOMAIN h
                   THEN [h EXCEPT ![r[ptr_field] - WILD].frees = @ + 1]
                   ELSE h]

\* free_buffer, on one pointer field and its length field
free_buffer(r, h, ptr_field, len_field) ==
    IF is_null(r[ptr_field]) THEN [record |-> r, heap |-> h]
    ELSE [record |-> [r EXCEPT ![ptr_field] = NULL, ![len_field] = 0],
          heap |-> IF (r[ptr_field] - WILD) \in DOMAIN h
                   THEN [h EXCEPT ![r[ptr_field] - WILD].frees = @ + 1]
                   ELSE h]

\* a mutant of markdown_result_free: the etag buffer is not released
markdown_result_free_without_etag(result, r, h) ==
    LET f1 == free_buffer(r, h, "markdown", "markdown_len")
        f3 == free_buffer(f1.record, f1.heap, "error_message", "error_len")
    IN IF is_null(result) THEN [record |-> r, heap |-> h]
       ELSE [record |-> [f3.record EXCEPT !.etag = NULL, !.etag_len = 0,
                                          !.token_estimate = 0, !.error_code = 0],
             heap |-> f3.heap]

\* markdown_result_free: the record that result points to (if it points to
\* one) and the heap afterwards
markdown_result_free(result, r, h) ==
    LET f1 == free_buffer(r, h, "markdown", "markdown_len")
        f2 == free_buffer(f1.record, f1.heap, "etag", "etag_len")
        f3 == free_buffer(f2.record, f2.heap, "error_message", "error_len")
    IN IF is_null(result) THEN [record |-> r, heap |-> h]
       ELSE [record |-> [f3.record EXCEPT !.token_estimate = 0, !.error_code = 0],
             heap |-> f3.heap]

(***************************************************************************)
(* Each specification below exercises one part of the program and leaves   *)
(* the variables of the other parts at these values.                       *)
(***************************************************************************)
NoOutcome == [ret |-> "none"]
NoCall ==
    [op |-> "none", populated |-> FALSE, code |-> 0, prev_code |-> 0, done |-> <<>>,
     abandoned |-> {}]
ZeroResult ==
    [markdown |-> NULL, markdown_len |-> 0, etag |-> NULL, etag_len |-> 0,
     token_estimate |-> 0, error_code |-> 0, error_message |-> NULL, error_len |-> 0]

\* the variables of the parts named in parts ("norm", "ctx", "conv", "ffi")
\* hold their idle values
idle(parts) ==
    /\ IF "norm" \in parts THEN buf = <<>> /\ normalized = <<>> ELSE TRUE
    /\ IF "ctx" \in parts THEN ctx = NoContext /\ clock = 0 /\ probe = NoProbe ELSE TRUE
    /\ IF "conv" \in parts THEN conv_in = [kind |-> "none"] /\ outcome = NoOutcome ELSE TRUE
    /\ IF "ffi" \in parts
       THEN record = ZeroResult /\ heap = <<>> /\ calls = 0 /\ last = NoCall
            /\ threads = <<>>
       ELSE TRUE

(***************************************************************************)
(* SpecCtx: a caller creates a context, lets time pass, and calls          *)
(* increment_and_check and check_timeout on it.                            *)
(***************************************************************************)
MaxTimeout == 2
MaxClock == 4
MaxIncrements == 205

CtxInit ==
    /\ phase = "ctx"
    /\ clock = 0
    /\ \E timeout \in 0..MaxTimeout : ctx = ConversionContext_new(timeout, 0)
    /\ probe = NoProbe
    /\ idle({"norm", "conv", "ffi"})

\* time passes
Tick ==
    /\ phase = "ctx"
    /\ clock < MaxClock
    /\ clock' = clock + 1
    /\ UNCHANGED <<phase, ctx, probe, normVars, convVars, ffiVars>>

\* ctx.increment_and_check()
IncrementAndCheck ==
    /\ phase = "ctx"
    /\ ctx.node_count < MaxIncrements
    /\ LET r == increment_and_check(ctx, clock)
       IN /\ ctx' = r.ctx
          /\ probe' = [expired_at_first |->
                           IF ctx.node_count = 0
                           THEN ctx.timeout > 0 /\ clock - ctx.start_time > ctx.timeout
                           ELSE probe.expired_at_first,
                       first_err_at |->
                           IF probe.first_err_at = 0 /\ r.ret = "Timeout"
                           THEN r.ctx.node_count ELSE probe.first_err_at,
                       last_ret |-> r.ret]
    /\ UNCHANGED <<phase, clock, normVars, convVars, ffiVars>>

\* ctx.check_timeout()
CheckTimeout ==
    /\ phase = "ctx"
    /\ probe' = [probe EXCEPT !.last_ret = check_timeout(ctx, clock)]
    /\ UNCHANGED <<phase, ctx, clock, normVars, convVars, ffiVars>>

CtxNext == Tick \/ IncrementAndCheck \/ CheckTimeout

SpecCtx == CtxInit /\ [][CtxNext]_vars

(***************************************************************************)
(* SpecNorm: normalize_output applied to every buffer that is a            *)
(* concatenation of at most MaxPieces pieces.                              *)
(***************************************************************************)
MaxPieces == 4

RECURSIVE concat(_)
concat(ps) == IF ps = <<>> THEN <<>> ELSE ps[1] \o concat(Tail(ps))

\* the buffers handed to normalize_output: up to MaxPieces pieces
Buffers ==
    LET Pieces == {<<"a">>, <<SP>>, <<TAB>>, <<LF>>, <<CR>>, <<BT>>, Fence}
    IN UNION {{concat(ps) : ps \in [1..n -> Pieces]} : n \in 0..MaxPieces}

NormInit ==
    /\ buf \in Buffers
    /\ normalized = <<>>
    /\ phase = "input"
    /\ idle({"ctx", "conv", "ffi"})

Normalize ==
    /\ phase = "input"
    /\ normalized' = normalize_output(buf)
    /\ phase' = "normalized"
    /\ UNCHANGED <<buf, ctxVars, convVars, ffiVars>>

SpecNorm == NormInit /\ [][Normalize]_vars

(***************************************************************************)
(* SpecConv: convert_with_context applied to the trees html5ever builds    *)
(* for small pages.  Every tree is Document > html > (head, body); the     *)
(* body holds one payload under a chain of at most MaxChain wrappers, or   *)
(* WideGroups div elements of WideGroups elements of one kind each, or one *)
(* paragraph under a head of at most MaxHead metadata sources.             *)
(***************************************************************************)
MaxChain == 2
MaxHead == 3
WideGroups == 7
DepthCeiling == 2

Page(head_kids, body_kids) ==
    Document(<<Element("html", <<>>,
                 <<Element("head", <<>>, head_kids), Element("body", <<>>, body_kids)>>)>>)

\* one wrapper around a node; "li" is ul > li and "td" is
\* table > tbody > tr > td, as the parser builds them
Wrap(kind, inner) ==
    IF kind = "li" THEN Element("ul", <<>>, <<Element("li", <<>>, <<inner>>)>>)
    ELSE IF kind = "td"
    THEN Element("table", <<>>,
             <<Element("tbody", <<>>,
                   <<Element("tr", <<>>, <<Element("td", <<>>, <<inner>>)>>)>>)>>)
    ELSE IF kind = "a" THEN Element("a", <<Attr("href", <<"/", "s">>)>>, <<inner>>)
    ELSE Element(kind, <<>>, <<inner>>)

RECURSIVE Chain(_, _)
Chain(kinds, payload) ==
    IF kinds = <<>> THEN payload ELSE Wrap(kinds[1], Chain(Tail(kinds), payload))

\* the payloads: text, links and images with safe and with dangerous urls,
\* texts and alt texts that look like link syntax, and the drop elements
\* that can hold text in a parsed tree (link, base and embed are void
\* elements: the parser gives them no children), and pre elements whose
\* text has a blank line, two blank lines and a run of spaces, a text
\* that starts with a space, and a list inside a div
Payloads ==
    LET safe_url == <<"/", "s">>
        data_url == <<"d", "a", "t", "a", ":", "s">>
        alt_text == <<"s", "]", "(", "d", "a", "t", "a", ":", "s">>
    IN {Text(<<"s">>), Text(<<SP, "s">>),
        Text(<<"[", "s", "]", "(", "d", "a", "t", "a", ":", "s", ")">>),
        Element("a", <<Attr("href", safe_url)>>, <<Text(<<"s">>)>>),
        Element("a", <<Attr("href", data_url)>>, <<Text(<<"s">>)>>),
        Element("a", <<Attr("href", <<" ", "D", "A", "T", "A", ":", "s">>)>>, <<Text(<<"s">>)>>),
        Element("a", <<Attr("href", safe_url)>>, <<Text(alt_text)>>),
        Element("img", <<Attr("src", safe_url), Attr("alt", <<"s">>)>>, <<>>),
        Element("img", <<Attr("src", data_url), Attr("alt", <<"s">>)>>, <<>>),
        Element("img", <<Attr("src", safe_url), Attr("alt", alt_text)>>, <<>>),
        Element("div", <<>>,
            <<Element("ul", <<>>, <<Element("li", <<>>, <<Text(<<"s">>)>>)>>)>>)}
           \cup {Element(e, <<>>, <<Text(<<"X">>)>>) :
                    e \in {"script", "style", "noscript", "iframe", "object", "applet"}}
           \cup {Element("pre", <<>>, <<Text(t)>>) :
                    t \in {<<"a", LF, LF, "b">>, <<"a", LF, LF, LF, "b">>,
                           <<"a", SP, SP, "b">>,
                           <<BT, BT, BT, LF, "a", SP, SP, "b">>}}

\* the chains the parser can build: a p holds no block element, an h1 no
\* h1, and an a element lies in no other a element
ParserBuilds(kinds, payload) ==
    /\ \A i \in 1..(Len(kinds) - 1) :
          /\ kinds[i] = "p" => kinds[i + 1] \notin {"div", "p", "h1", "li", "pre", "td"}
          /\ kinds[i] = "h1" => kinds[i + 1] # "h1"
    /\ kinds # <<>> /\ kinds[Len(kinds)] = "p" => payload.name \notin {"pre", "div"}
    /\ Cardinality({i \in 1..Len(kinds) : kinds[i] = "a"})
           + (IF payload.name = "a" THEN 1 ELSE 0) <= 1

ChainBodies ==
    LET WrapperKinds == {"div", "p", "h1", "li", "a", "pre", "code", "strong", "td"}
    IN {<<Chain(kinds, payload)>> :
           <<kinds, payload>> \in
               {kp \in (UNION {[1..n -> WrapperKinds] : n \in 0..MaxChain}) \X Payloads :
                   ParserBuilds(kp[1], kp[2])}}

\* a body of more than CheckpointEvery nodes
Wide(kind) ==
    [i \in 1..WideGroups |->
        Element("div", <<>>, [j \in 1..WideGroups |-> Element(kind, <<>>, <<Text(<<"s">>)>>)])]

\* the metadata sources a head can hold: a title element, meta elements
\* with a property or a name and a content that is empty or not (the image
\* a relative url), and a canonical link
MetaSources ==
    LET og_title == <<"o", "g", ":", "t", "i", "t", "l", "e">>
        twitter_title == <<"t", "w", "i", "t", "t", "e", "r", ":", "t", "i", "t", "l", "e">>
        og_url == <<"o", "g", ":", "u", "r", "l">>
        og_description == <<"o", "g", ":", "d", "e", "s", "c", "r", "i", "p", "t", "i", "o",
                            "n">>
        description == <<"d", "e", "s", "c", "r", "i", "p", "t", "i", "o", "n">>
        canonical == <<"c", "a", "n", "o", "n", "i", "c", "a", "l">>
        og_image == <<"o", "g", ":", "i", "m", "a", "g", "e">>
        meta(attr, key, content) ==
            Element("meta", <<Attr(attr, key), Attr("content", content)>>, <<>>)
    IN {Element("title", <<>>, <<Text(<<"t">>)>>),
        meta("property", og_title, <<"o">>), meta("property", og_title, <<>>),
        meta("name", twitter_title, <<"w">>),
        meta("property", og_url, <<"h", "t", "t", "p", ":", "/", "/", "h", "/", "u">>),
        meta("property", og_description, <<>>), meta("name", description, <<"d">>),
        meta("property", og_image, <<"p">>),
        Element("link", <<Attr("rel", canonical),
                          Attr("href", <<"h", "t", "t", "p", ":", "/", "/", "h", "/",
                                         "c">>)>>, <<>>)}

\* the heads of at most MaxHead different sources, in any order
MetaHeads ==
    {head \in UNION {[1..n -> MetaSources] : n \in 0..MaxHead} :
        \A i, j \in DOMAIN head : i # j => head[i] # head[j]}

\* a converter (as with_options builds it, or with a validator of a lower
\* ceiling, DepthCeiling standing for MAX_NESTING_DEPTH), a tree and a
\* context; tm is the clock of the call
ConvInit ==
    LET Heads == {<<>>, <<Element("title", <<>>, <<Text(<<"t">>)>>)>>}
        ConversionOptionsSet ==
            [flavor : {"CommonMark", "GitHubFlavoredMarkdown"},
             include_front_matter : BOOLEAN, extract_metadata : BOOLEAN,
             base_url : {None}, resolve_relative_urls : {FALSE}]
        Validators == {SecurityValidator_new, SecurityValidator_with_max_depth(DepthCeiling)}
        Timings == [start : {0}, meta : {0, 2}, per_node : {0, 1}, norm : {0, 2}]
    IN /\ phase = "input"
       /\ \/ \E body \in ChainBodies, head \in Heads, options \in ConversionOptionsSet,
                validator \in Validators, timeout \in {0, 1} :
                /\ options.include_front_matter = options.extract_metadata
                /\ conv_in = [kind |-> "chain", dom |-> Page(head, body),
                              self |-> MarkdownConverter(options, validator),
                              ctx |-> ConversionContext_new(timeout, 0),
                              tm |-> [start |-> 0, meta |-> 0, per_node |-> 0,
                                      norm |-> timeout * 2]]
          \/ \E kind \in {"div", "p"}, options \in ConversionOptionsSet,
                timeout \in 0..MaxTimeout, tm \in Timings :
                /\ conv_in = [kind |-> "wide", dom |-> Page(<<>>, Wide(kind)),
                              self |-> MarkdownConverter(options, SecurityValidator_new),
                              ctx |-> ConversionContext_new(timeout, 0),
                              tm |-> tm]
          \/ \E head \in MetaHeads,
                base_url \in {None, Some(<<"h", "t", "t", "p", ":", "/", "/", "h", "/", "b">>),
                              Some(<<"h", "t", "t", "p", ":", "/", "/", "h", "/", "b", "/">>)} :
                /\ conv_in = [kind |-> "meta",
                              dom |-> Page(head, <<Element("p", <<>>, <<Text(<<"s">>)>>)>>),
                              self |-> MarkdownConverter(
                                           [flavor |-> "CommonMark",
                                            include_front_matter |-> TRUE,
                                            extract_metadata |-> TRUE,
                                            base_url |-> base_url,
                                            resolve_relative_urls |-> base_url.some],
                                           SecurityValidator_new),
                              ctx |-> ConversionContext_new(0, 0),
                              tm |-> [start |-> 0, meta |-> 0, per_node |-> 0, norm |-> 0]]
       /\ outcome = NoOutcome
       /\ idle({"norm", "ctx", "ffi"})

\* converter.convert_with_context(&dom, &mut ctx)
Convert ==
    /\ phase = "input"
    /\ outcome' = convert_with_context(conv_in.self, conv_in.dom, conv_in.ctx, conv_in.tm)
    /\ phase' = "converted"
    /\ UNCHANGED <<conv_in, normVars, ctxVars, ffiVars>>

SpecConv == ConvInit /\ [][Convert]_vars

(***************************************************************************)
(* SpecFfi: a C caller holds one MarkdownResult record, of arbitrary       *)
(* content at first, and calls markdown_convert and markdown_result_free   *)
(* on it, at most MaxCalls conversions in all.  last tells what the last   *)
(* call was and did; its code and prev_code are the error codes that the   *)
(* last two conversions reported, and its done lists, for every conversion *)
(* made with a record, the arguments and what the caller found in the      *)
(* record on return; its abandoned holds the buffers that a record still   *)
(* pointed to when markdown_convert was called on it (reset_result clears  *)
(* the pointers and releases nothing).                                     *)
(***************************************************************************)
MaxCalls == 2

GarbageResult ==
    [markdown |-> WILD, markdown_len |-> 7, etag |-> WILD, etag_len |-> 7,
     token_estimate |-> 7, error_code |-> 7, error_message |-> WILD, error_len |-> 7]

\* MarkdownOptions; an optional string is [ptr, len, utf8, str]
MarkdownOptions(flavor, timeout_ms, extras, front_matter, content_type, base_url) ==
    [flavor |-> flavor, timeout_ms |-> timeout_ms, generate_etag |-> extras,
     estimate_tokens |-> extras, front_matter |-> front_matter,
     content_type |-> content_type, base_url |-> base_url]

\* the arguments of markdown_convert: bytes is what html points to (if it
\* points to anything), options_ref what options points to
Args(handle, html, bytes, options, options_ref, result_ptr) ==
    [handle |-> handle, html |-> html, html_len |-> bytes.len, bytes |-> bytes,
     options |-> options, options_ref |-> options_ref, result |-> result_ptr]

\* the calls a caller makes, as [a, env]: a the arguments and env how the
\* call goes, [panics, parse, gap, meta, per_node, norm].  The pages sent
\* are a small page, bytes that do not decode, and a page of more than
\* CheckpointEvery nodes.
FfiCalls ==
    LET NoString == [ptr |-> NULL, len |-> 0, utf8 |-> TRUE, str |-> <<>>]
        NullWithLength == [ptr |-> NULL, len |-> 5, utf8 |-> TRUE, str |-> <<>>]
        NotUtf8 == [ptr |-> CALLER, len |-> 2, utf8 |-> FALSE, str |-> <<>>]
        page_url == <<"h", "t", "t", "p", ":", "/", "/", "h", "/", "d", "/", "p">>
        PageUrl == [ptr |-> CALLER, len |-> Len(page_url), utf8 |-> TRUE, str |-> page_url]
        PlainOptions == MarkdownOptions(0, 0, 0, 0, NoString, NoString)
        TimedOptions == {MarkdownOptions(0, 1, 0, fm, NoString, NoString) : fm \in {0, 1}}
        RichOptions ==
            {MarkdownOptions(1, 0, 1, 1, NoString, NoString),
             MarkdownOptions(0, 0, 1, 1, NoString, PageUrl),
             MarkdownOptions(0, 0, 0, 1, NoString, NotUtf8)}
        BadStringOptions ==
            {MarkdownOptions(0, 0, 0, 0, NullWithLength, NoString),
             MarkdownOptions(0, 0, 0, 0, NoString, NullWithLength)}
        SmallPage ==
            [len |-> 40, decodes |-> TRUE,
             dom |-> Page(<<Element("title", <<>>, <<Text(<<"t">>)>>)>>,
                          <<Element("p", <<>>, <<Text(<<"s">>)>>)>>)]
        UndecodablePage == [len |-> 2, decodes |-> FALSE, dom |-> Document(<<>>)]
        WidePage ==
            [len |-> 1000, decodes |-> TRUE,
             dom |-> Page(<<>>,
                          [i \in 1..WideGroups |->
                              Element("div", <<>>,
                                  [j \in 1..WideGroups |->
                                      Element("div", <<>>, <<Text(<<LF>>)>>)])]
                          \o <<Element("p", <<>>, <<Text(<<"s">>)>>)>>)]
        QuietEnv == [panics |-> FALSE, parse |-> 0, gap |-> 0, meta |-> 0,
                     per_node |-> 0, norm |-> 0]
        SlowEnvs ==
            {[QuietEnv EXCEPT !.parse = 2], [QuietEnv EXCEPT !.gap = 2],
             [QuietEnv EXCEPT !.meta = 2], [QuietEnv EXCEPT !.per_node = 1],
             [QuietEnv EXCEPT !.norm = 2]}
        PanicEnv == [QuietEnv EXCEPT !.panics = TRUE]
    IN {[a |-> Args(CALLER, CALLER, SmallPage, CALLER, o, CALLER), env |-> QuietEnv] :
           o \in {PlainOptions} \cup RichOptions}
       \cup {[a |-> Args(CALLER, CALLER, SmallPage, CALLER, PlainOptions, CALLER),
              env |-> e] : e \in {PanicEnv, [QuietEnv EXCEPT !.norm = 2]}}
       \cup {[a |-> Args(CALLER, CALLER, SmallPage, CALLER, o, CALLER), env |-> e] :
           o \in TimedOptions, e \in {QuietEnv} \cup SlowEnvs}
       \cup {[a |-> Args(CALLER, CALLER, SmallPage, CALLER, o, CALLER), env |-> QuietEnv] :
           o \in BadStringOptions}
       \cup {[a |-> Args(CALLER, CALLER, UndecodablePage, CALLER, PlainOptions, CALLER),
              env |-> QuietEnv]}
       \cup {[a |-> Args(CALLER, CALLER, WidePage, CALLER, o, CALLER),
              env |-> [QuietEnv EXCEPT !.per_node = 1]] : o \in TimedOptions}
       \cup {[a |-> Args(CALLER, CALLER, WidePage, CALLER,
                         MarkdownOptions(0, 1, 0, 0, NoString, NoString), CALLER),
              env |-> QuietEnv]}
       \cup {[a |-> Args(CALLER, html, EmptySlice, CALLER, o, CALLER), env |-> QuietEnv] :
           html \in {NULL, CALLER},
           o \in {PlainOptions, MarkdownOptions(1, 1, 1, 1, NoString, NoString)}}
       \cup {[a |-> Args(handle, html, SmallPage, options, PlainOptions, CALLER),
              env |-> QuietEnv] :
           handle \in {NULL, CALLER}, html \in {NULL, CALLER}, options \in {NULL, CALLER}}
       \cup {[a |-> Args(handle, NULL, EmptySlice, options, PlainOptions, CALLER),
              env |-> QuietEnv] :
           handle \in {NULL, CALLER}, options \in {NULL, CALLER}}
       \cup {[a |-> Args(CALLER, CALLER, SmallPage, CALLER, PlainOptions, NULL),
              env |-> QuietEnv]}

FfiInit ==
    /\ phase = "ffi"
    /\ record \in {ZeroResult, GarbageResult}
    /\ heap = <<>>
    /\ calls = 0
    /\ last = NoCall
    /\ threads = <<>>
    /\ idle({"norm", "ctx", "conv"})

\* markdown_convert(handle, html, html_len, options, result)
MarkdownConvert ==
    /\ phase = "ffi"
    /\ calls < MaxCalls
    /\ \E call \in FfiCalls :
          LET read(h, ptr) == IF (ptr - WILD) \in DOMAIN h THEN h[ptr - WILD].bytes ELSE <<>>
              found(m) == [a |-> call.a, env |-> call.env, code |-> m.record.error_code,
                           markdown |-> read(m.heap, m.record.markdown),
                           etag |-> read(m.heap, m.record.etag),
                           token_estimate |-> m.record.token_estimate]
              returned(m) ==
                  /\ record' = m.record
                  /\ heap' = m.heap
                  /\ last' = [op |-> "convert", a |-> call.a, env |-> call.env,
                              before |-> record,
                              ok |-> m.inner.ok, panicked |-> m.inner.panicked,
                              ctx |-> m.inner.ctx, checks |-> m.inner.checks,
                              populated |-> last.populated \/ ~is_null(call.a.result),
                              code |-> IF is_null(call.a.result) THEN ERROR_SUCCESS
                                       ELSE m.record.error_code,
                              prev_code |-> last.code,
                              done |-> IF is_null(call.a.result) THEN last.done
                                       ELSE Append(last.done, found(m)),
                              abandoned |->
                                  IF is_null(call.a.result) THEN last.abandoned
                                  ELSE last.abandoned \cup
                                       {i \in DOMAIN heap :
                                           address(i) \in {record.markdown, record.etag,
                                                           record.error_message}}]
          IN returned(markdown_convert(record, heap, call.a, call.env))
    /\ calls' = calls + 1
    /\ UNCHANGED <<phase, threads, normVars, ctxVars, convVars>>

\* markdown_result_free(result), with NULL or with the address of the record
\* once markdown_convert has populated it
MarkdownResultFree ==
    /\ phase = "ffi"
    /\ \E result \in {NULL, CALLER} :
          /\ is_null(result) \/ last.populated
          /\ LET f == markdown_result_free(result, record, heap)
             IN /\ record' = f.record
                /\ heap' = f.heap
          /\ last' = [op |-> "free", result |-> result, before |-> record,
                      heap_before |-> heap, populated |-> last.populated,
                      code |-> last.code, prev_code |-> last.prev_code,
                      done |-> last.done, abandoned |-> last.abandoned]
    /\ UNCHANGED <<phase, calls, threads, normVars, ctxVars, convVars>>

FfiNext == MarkdownConvert \/ MarkdownResultFree

SpecFfi == FfiInit /\ [][FfiNext]_vars

(***************************************************************************)
(* SpecThr: MaxThreads threads, each with a handle and a MarkdownResult    *)
(* record of its own, call markdown_convert once and at the same time.     *)
(* What the threads share is the allocator (heap).  A thread is            *)
(* [pc, call, entry, record, overlapped]: entry is its record as it was at *)
(* the call, overlapped whether another thread was inside markdown_convert *)
(* when this one returned.  A call takes two steps, between which the      *)
(* other threads run: up to reset_result, and from the closure to the      *)
(* return.                                                                 *)
(***************************************************************************)
MaxThreads == 2

ThrInit ==
    /\ phase = "threads"
    /\ threads \in [1..MaxThreads ->
                      {[pc |-> "idle", call |-> [a |-> <<>>, env |-> <<>>], entry |-> r,
                        record |-> r, overlapped |-> FALSE] :
                          r \in {ZeroResult, GarbageResult}}]
    /\ heap = <<>>
    /\ record = ZeroResult /\ calls = 0 /\ last = NoCall
    /\ idle({"norm", "ctx", "conv"})

\* thread t calls markdown_convert and runs it up to reset_result
Enter(t) ==
    /\ phase = "threads"
    /\ threads[t].pc = "idle"
    /\ \E call \in FfiCalls :
          threads' = [threads EXCEPT ![t] =
                        [pc |-> IF is_null(call.a.result) THEN "returned" ELSE "entered",
                         call |-> call, entry |-> @.record,
                         record |-> IF is_null(call.a.result) THEN @.record
                                    ELSE reset_result(@.record),
                         overlapped |-> FALSE]]
    /\ UNCHANGED <<phase, record, heap, calls, last, normVars, ctxVars, convVars>>

\* thread t runs the closure, stores what it returned in its record and
\* returns
Return(t) ==
    /\ phase = "threads"
    /\ threads[t].pc = "entered"
    /\ LET returned(m) ==
               /\ threads' = [threads EXCEPT
                                 ![t].pc = "returned", ![t].record = m.record,
                                 ![t].overlapped =
                                     \E u \in DOMAIN threads : threads[u].pc = "entered" /\ u # t]
               /\ heap' = m.heap
       IN returned(markdown_convert(threads[t].record, heap, threads[t].call.a,
                                    threads[t].call.env))
    /\ UNCHANGED <<phase, record, calls, last, normVars, ctxVars, convVars>>

SpecThr == ThrInit /\ [][\E t \in 1..MaxThreads : Enter(t) \/ Return(t)]_vars

(***************************************************************************)
(* Properties of the conversion context.                                   *)
(***************************************************************************)
\* C8: on a context whose deadline had already passed at its first
\* increment_and_check, the call returns Ok as long as fewer than 100 calls
\* were made, and returns Timeout for the first time on exactly the 100th.
TimeoutFirstAtHundredthIncrement ==
    (phase = "ctx" /\ probe.expired_at_first) =>
        /\ ctx.node_count < CheckpointEvery => probe.first_err_at = 0
        /\ ctx.node_count >= CheckpointEvery => probe.first_err_at = CheckpointEvery

\* C8, its case: an expired context's 100th call has just returned Timeout
ExpiredContextReachedHundredthCall ==
    /\ phase = "ctx"
    /\ probe.expired_at_first
    /\ ctx.node_count = CheckpointEvery
    /\ probe.first_err_at = CheckpointEvery
    /\ probe.last_ret = "Timeout"

(***************************************************************************)
(* Properties of the output normalizer.                                    *)
(***************************************************************************)
no_carriage_return(s) == \A i \in 1..Len(s) : s[i] # CR

no_line_ends_in_blank(s) ==
    \A i \in 1..Len(s) : s[i] = LF => (i = 1 \/ s[i - 1] \notin {SP, TAB})

no_triple_line_feed(s) ==
    \A i \in 1..(Len(s) - 2) : ~(s[i] = LF /\ s[i + 1] = LF /\ s[i + 2] = LF)

ends_with_one_line_feed(s) == ends_with(s, <<LF>>) /\ ~ends_with(s, <<LF, LF>>)

\* C10: the normalizer's output, for any input buffer, contains no carriage
\* return, no line ending in a space or tab, no three consecutive line feeds,
\* and ends with exactly one line feed.
NormalizerOutputIsClean ==
    phase = "normalized" =>
        /\ no_carriage_return(normalized)
        /\ no_line_ends_in_blank(normalized)
        /\ no_triple_line_feed(normalized)
        /\ ends_with_one_line_feed(normalized)

(***************************************************************************)
(* Properties of the lowering engine.                                      *)
(***************************************************************************)
\* C3: no text of a drop element's subtree appears in the output markdown,
\* wherever the drop element is nested (in the pages of SpecConv the text X
\* occurs in drop subtrees only).
NoDropTextInOutput ==
    (phase = "converted" /\ outcome.ret = "Ok") => ~contains(outcome.markdown, <<"X">>)

starts_with_dangerous_scheme(s) ==
    \E scheme \in DANGEROUS_URL_SCHEMES : starts_with(to_lowercase(trim_start(s)), scheme)

\* C4: in the markdown of a successful conversion no "](" is followed by a
\* url that, leading whitespace trimmed and case ignored, starts with
\* javascript:, data:, vbscript:, file: or about:.
NoDangerousUrlPair ==
    (phase = "converted" /\ outcome.ret = "Ok") =>
        \A i \in 1..(Len(outcome.markdown) - 1) :
            (outcome.markdown[i] = "]" /\ outcome.markdown[i + 1] = "(") =>
                ~starts_with_dangerous_scheme(
                    SubSeq(outcome.markdown, i + 2, Len(outcome.markdown)))

\* the depth of the deepest element below node, counted as the engine counts
\* it: the children of the document are at depth 0
RECURSIVE deepest_element(_, _)
RECURSIVE deepest_element_of(_, _)
deepest_element(node, depth) ==
    IF node.kind = "Document" THEN deepest_element_of(node.kids, depth)
    ELSE IF node.kind = "Element"
    THEN LET below == deepest_element_of(node.kids, depth + 1)
         IN IF below > depth THEN below ELSE depth
    ELSE -1

deepest_element_of(kids, depth) ==
    IF kids = <<>> THEN -1
    ELSE LET first == deepest_element(kids[1], depth)
             rest == deepest_element_of(Tail(kids), depth)
         IN IF first > rest THEN first ELSE rest

\* C5: a document in which some element is nested deeper than the
\* validator's ceiling is rejected with InvalidInput, whichever elements
\* form the chain (here: conversions without a timeout, which nothing else
\* can end).
DeepDocumentRejected ==
    (/\ phase = "converted"
     /\ conv_in.ctx.timeout = 0
     /\ deepest_element(conv_in.dom, 0) > conv_in.self.security_validator.max_depth)
        => outcome.ret = "InvalidInput"

\* C6: the engine increments the context's node counter once for every node
\* it visits, whatever element the node lies under.
CounterCountsEveryVisitedNode ==
    phase = "converted" => outcome.node_count = outcome.visited

(***************************************************************************)
(* The result record across the C boundary (SpecFfi).  After a             *)
(* MarkdownConvert step, last holds the call's arguments and what          *)
(* convert_inner did, and record is what the caller reads.                 *)
(***************************************************************************)
Converted == last.op = "convert" /\ ~is_null(last.a.result)

SuccessState(r) ==
    /\ r.error_code = ERROR_SUCCESS
    /\ ~is_null(r.markdown)
    /\ is_null(r.error_message)
    /\ r.error_len = 0

ErrorState(r) ==
    /\ r.error_code # ERROR_SUCCESS
    /\ is_null(r.markdown) /\ r.markdown_len = 0
    /\ is_null(r.etag) /\ r.etag_len = 0
    /\ r.token_estimate = 0
    /\ ~is_null(r.error_message) /\ r.error_len > 0

\* C1: after a markdown_convert call with a non-NULL result pointer, whatever
\* the record held before and whatever calls preceded it, the record is in
\* exactly one of the success state and the error state.
ResultInExactlyOneState ==
    Converted => (SuccessState(record) /\ ~ErrorState(record))
                 \/ (ErrorState(record) /\ ~SuccessState(record))

\* a call that failed, made on a record still holding the buffers of a
\* call that succeeded
ErrorAfterUnfreedSuccess ==
    /\ Converted
    /\ SuccessState(last.before) /\ ~is_null(last.before.etag)
    /\ ErrorState(record)

InvalidInputResult(r) ==
    /\ r.error_code = ERROR_INVALID_INPUT
    /\ ~is_null(r.error_message) /\ r.error_len > 0
    /\ is_null(r.markdown) /\ is_null(r.etag)

OptionalStringsAccepted ==
    /\ last.a.options_ref.content_type.len > 0 => ~is_null(last.a.options_ref.content_type.ptr)
    /\ last.a.options_ref.base_url.len > 0 => ~is_null(last.a.options_ref.base_url.ptr)

TimedConversion ==
    /\ Converted
    /\ ~is_null(last.a.handle) /\ ~is_null(last.a.options) /\ ~is_null(last.a.html)
    /\ last.a.html_len > 0 /\ last.a.bytes.decodes
    /\ OptionalStringsAccepted
    /\ ~last.env.panics
    /\ last.a.options_ref.timeout_ms > 0

\* the deadline checks of the last call are made at the boundaries
\* expected, in that order; each returns Timeout exactly when more than
\* the timeout has passed since the context was created; the first Timeout
\* ends the call with error_code 3; a call that succeeds made them all
ChecksFollow(expected) ==
    LET cs == last.checks
        n == Len(cs)
    IN /\ n >= 1 /\ n <= Len(expected)
       /\ \A i \in 1..n : cs[i].at = expected[i]
       /\ \A i \in 1..n :
             cs[i].ret = "Timeout"
                <=> cs[i].now - last.ctx.start_time > last.a.options_ref.timeout_ms
       /\ \A i \in 1..(n - 1) : cs[i].ret = "Ok"
       /\ cs[n].ret = "Timeout" => record.error_code = ERROR_TIMEOUT
       /\ record.error_code = ERROR_SUCCESS => n = Len(expected) /\ cs[n].ret = "Ok"

markdown_bytes(r, h) ==
    IF (r.markdown - WILD) \in DOMAIN h THEN h[r.markdown - WILD].bytes ELSE <<>>

\* C9: every success result, for any input accepted at the boundary
\* (zero-length html included), carries markdown that is non-empty
\* (markdown_len > 0) and ends with exactly one line feed.
SuccessCarriesMarkdown ==
    (Converted /\ record.error_code = ERROR_SUCCESS)
        => /\ record.markdown_len > 0
           /\ record.markdown_len = Len(markdown_bytes(record, heap))
           /\ ends_with_one_line_feed(markdown_bytes(record, heap))


(***************************************************************************)
(* Properties of fenced code blocks.                                       *)
(***************************************************************************)
\* the texts of the pre elements at or below node that hold one text node
RECURSIVE pre_texts(_)
pre_texts(node) ==
    (IF node.kind = "Element" /\ node.name = "pre" /\ Len(node.kids) = 1
        /\ node.kids[1].kind = "Text"
     THEN {node.kids[1].text} ELSE {})
    \cup UNION {pre_texts(node.kids[i]) : i \in 1..Len(node.kids)}

\* C11: the text of a pre element, blank lines and runs of spaces included,
\* stands between its two fence lines in the markdown exactly as it is in
\* the element.
CodeBlockTextPreserved ==
    phase = "converted" /\ conv_in.kind = "chain" /\ outcome.ret = "Ok"
        => \A t \in pre_texts(conv_in.dom) :
               contains(outcome.markdown,
                        (((Fence \o <<LF>>) \o t) \o <<LF>>) \o Fence)

(***************************************************************************)
(* Properties of a handle used for several calls.                          *)
(***************************************************************************)
\* a call with a handle, a record, options whose strings are absent or
\* present, and bytes that decode; nothing panics and the deadline, if there
\* is one, is not reached
WellFormedCall(a, env) ==
    /\ ~is_null(a.handle) /\ ~is_null(a.html) /\ ~is_null(a.options) /\ ~is_null(a.result)
    /\ a.html_len > 0 /\ a.bytes.decodes
    /\ \A f \in {"content_type", "base_url"} :
          a.options_ref[f].len = 0 \/ ~is_null(a.options_ref[f].ptr)
    /\ ~env.panics
    /\ a.options_ref.timeout_ms = 0
          \/ env.parse + env.gap + env.meta + env.per_node + env.norm = 0

\* C12: a well-formed markdown_convert call made after a call on the same
\* handle that ended in an error result succeeds, whether or not the record
\* was freed in between.
HandleRecoversAfterError ==
    last.op = "convert" /\ last.prev_code # ERROR_SUCCESS /\ WellFormedCall(last.a, last.env)
        => last.ok /\ SuccessState(record) /\ ~ErrorState(record)

\* a conversion that succeeded on the record still holding the error result
\* of a conversion that timed out
SuccessAfterUnfreedTimeout ==
    /\ last.op = "convert" /\ WellFormedCall(last.a, last.env)
    /\ last.prev_code = ERROR_TIMEOUT /\ ErrorState(last.before)
    /\ SuccessState(record)

(***************************************************************************)
(* Properties of markdown_result_free.                                     *)
(***************************************************************************)
PointerFields == {"markdown", "etag", "error_message"}

\* the buffers of the heap that the record r points to
owned(r, h) == {i \in DOMAIN h : \E f \in PointerFields : r[f] = address(i)}

\* C13: markdown_result_free on a record releases each buffer the record
\* points to and leaves its three pointers NULL and its three lengths 0; a
\* call on a record that was already freed releases nothing; no buffer is
\* ever released twice; a call with NULL changes nothing.
FreeReleasesEachBufferOnce ==
    /\ \A i \in DOMAIN heap : heap[i].frees <= 1
    /\ last.op = "free" /\ ~is_null(last.result) =>
          /\ \A f \in PointerFields : record[f] = NULL
          /\ record.markdown_len = 0 /\ record.etag_len = 0 /\ record.error_len = 0
          /\ \A i \in owned(last.before, last.heap_before) : heap[i].frees = 1
          /\ \A i \in DOMAIN heap \ owned(last.before, last.heap_before) :
                heap[i] = last.heap_before[i]
    /\ last.op = "free" /\ is_null(last.result) =>
          record = last.before /\ heap = last.heap_before

\* markdown_result_free has run on a record that an earlier
\* markdown_result_free had emptied of a markdown buffer and an etag buffer
SecondFreeOfFreedRecord ==
    /\ last.op = "free" /\ ~is_null(last.result)
    /\ \A f \in PointerFields : last.before[f] = NULL
    /\ Cardinality({i \in DOMAIN heap : heap[i].frees = 1}) >= 2
    /\ heap = last.heap_before

(***************************************************************************)
(* Properties of a conversion that panics.                                 *)
(***************************************************************************)
\* C14: when the conversion panics inside markdown_convert the call returns
\* with error_code 99, a message that is not empty and no markdown or etag
\* buffer in the record.
PanicBecomesInternalError ==
    last.op = "convert" /\ last.panicked =>
        /\ record.error_code = ERROR_INTERNAL
        /\ ~is_null(record.error_message) /\ record.error_len > 0
        /\ (record.error_message - WILD) \in DOMAIN heap
        /\ heap[record.error_message - WILD].frees = 0
        /\ Len(heap[record.error_message - WILD].bytes) = record.error_len
        /\ is_null(record.markdown) /\ record.markdown_len = 0
        /\ is_null(record.etag) /\ record.etag_len = 0
        /\ record.token_estimate = 0

\* a conversion panicked on the record that still held the markdown and the
\* etag of an earlier success
PanicAfterUnfreedSuccess ==
    /\ last.op = "convert" /\ last.panicked
    /\ ~is_null(last.before.markdown) /\ ~is_null(last.before.etag)
    /\ last.before.error_code = ERROR_SUCCESS /\ last.prev_code = ERROR_SUCCESS
    /\ record.error_code = ERROR_INTERNAL

(***************************************************************************)
(* Properties of repeated conversions.                                     *)
(***************************************************************************)
\* the conversions i and j of the caller were given the same arguments and
\* neither panicked
SameConversion(i, j) ==
    /\ i < j
    /\ last.done[i].a = last.done[j].a
    /\ ~last.done[i].env.panics /\ ~last.done[j].env.panics

SameOutput(x, y) == x.markdown = y.markdown /\ x.etag = y.etag

contents(r, h) ==
    LET read(ptr) == IF (ptr - WILD) \in DOMAIN h THEN h[ptr - WILD] ELSE <<>>
    IN [error_code |-> r.error_code, token_estimate |-> r.token_estimate,
        markdown_len |-> r.markdown_len, etag_len |-> r.etag_len, error_len |-> r.error_len,
        markdown_null |-> is_null(r.markdown), etag_null |-> is_null(r.etag),
        error_null |-> is_null(r.error_message),
        markdown |-> read(r.markdown), etag |-> read(r.etag),
        error_message |-> read(r.error_message)]

without_front_matter(self) ==
    [self EXCEPT !.options.include_front_matter = FALSE, !.options.extract_metadata = FALSE]

\* the YAML block and its blank line, as convert_with_context writes them
\* for the tree dom
front_matter_of(self, dom) ==
    write_front_matter(extract(MetadataExtractor_new(self.options.base_url,
                                                     self.options.resolve_relative_urls), dom))

\* C17: the markdown of a conversion with front matter is the YAML block and
\* its blank line followed by the markdown the same conversion gives without
\* front matter, for pages with and without metadata (pages that give no
\* markdown but a line feed without front matter are left aside).
FrontMatterOnlyPrefixes ==
    /\ phase = "converted" /\ outcome.ret = "Ok"
    /\ conv_in.self.options.include_front_matter /\ conv_in.self.options.extract_metadata
    => LET same(off) ==
               /\ off.ret = "Ok"
               /\ off.markdown # <<LF>> =>
                  outcome.markdown = front_matter_of(conv_in.self, conv_in.dom) \o off.markdown
       IN same(convert_with_context(without_front_matter(conv_in.self), conv_in.dom,
                                    conv_in.ctx, conv_in.tm))

(***************************************************************************)
(* Properties of the metadata in the front matter.                         *)
(***************************************************************************)
\* the children of the head of the page converted
head_of(dom) == dom.kids[1].kids[1].kids

\* the contents of the meta elements of the head whose property or name is
\* key
sources(key) ==
    {find_attr(e.attrs, "content").value :
        e \in {head_of(conv_in.dom)[i] : i \in DOMAIN head_of(conv_in.dom)} \cap
              {e \in MetaSources :
                  /\ e.name = "meta"
                  /\ Some(key) \in {find_attr(e.attrs, "property"), find_attr(e.attrs, "name")}}}

\* the head holds an element named name
head_has(name) == \E i \in DOMAIN head_of(conv_in.dom) : head_of(conv_in.dom)[i].name = name

\* the front matter written holds the line key: "value"
field_written(key, value) ==
    contains(outcome.raw, ((<<LF>> \o key) \o write_yaml_string(value)) \o <<LF>>)

\* the front matter written holds no line for key
field_absent(key) == ~contains(outcome.raw, <<LF>> \o key)

MetaConverted == phase = "converted" /\ conv_in.kind = "meta" /\ outcome.ret = "Ok"

\* C18: the title of the front matter is the og:title content if the head has
\* one, else the twitter:title content if it has one, else the text of the
\* title element, in whatever order the head holds them (no source empty).
TitleByPrecedence ==
    LET title_key == <<"t", "i", "t", "l", "e", ":", " ">>
        og == sources(<<"o", "g", ":", "t", "i", "t", "l", "e">>)
        twitter == sources(<<"t", "w", "i", "t", "t", "e", "r", ":", "t", "i", "t", "l", "e">>)
    IN MetaConverted /\ <<>> \notin og =>
           IF og # {} THEN field_written(title_key, <<"o">>)
           ELSE IF twitter # {} THEN field_written(title_key, <<"w">>)
           ELSE IF head_has("title") THEN field_written(title_key, <<"t">>)
           ELSE field_absent(title_key)

\* C19: the url of the front matter is the href of the canonical link if the
\* head has one, else the og:url content if it has one, else base_url.
UrlByPrecedence ==
    LET url_key == <<"u", "r", "l", ":", " ">>
        og == sources(<<"o", "g", ":", "u", "r", "l">>)
        base_url == conv_in.self.options.base_url
    IN MetaConverted =>
           IF head_has("link")
           THEN field_written(url_key, <<"h", "t", "t", "p", ":", "/", "/", "h", "/", "c">>)
           ELSE IF og # {}
           THEN field_written(url_key, <<"h", "t", "t", "p", ":", "/", "/", "h", "/", "u">>)
           ELSE IF base_url.some THEN field_written(url_key, base_url.value)
           ELSE field_absent(url_key)

\* the head without its meta elements of empty content
without_empty_sources(head) ==
    LET empty(e) == e.name = "meta" /\ find_attr(e.attrs, "content") = Some(<<>>)
    IN SelectSeq(head, LAMBDA e : ~empty(e))

\* C20: a page whose head holds meta elements with an empty content gives
\* the markdown (front matter included) that the page gives without those
\* elements.
EmptySourceIsAbsent ==
    MetaConverted /\ without_empty_sources(head_of(conv_in.dom)) # head_of(conv_in.dom) =>
        LET same(clean) == clean.ret = "Ok" /\ outcome.markdown = clean.markdown
        IN same(convert_with_context(
                    conv_in.self,
                    Page(without_empty_sources(head_of(conv_in.dom)),
                         <<Element("p", <<>>, <<Text(<<"s">>)>>)>>),
                    conv_in.ctx, conv_in.tm))

(***************************************************************************)
(* Properties of headings.                                                 *)
(***************************************************************************)
\* the h1 elements at or below node whose children are text nodes, each as
\* its whitespace-collapsed text
RECURSIVE plain_headings(_)
plain_headings(node) ==
    (IF node.kind = "Element" /\ node.name = "h1" /\ node.kids # <<>>
        /\ \A i \in DOMAIN node.kids : node.kids[i].kind = "Text"
     THEN {normalize_text(extract_text_content(node))} ELSE {})
    \cup UNION {plain_headings(node.kids[i]) : i \in 1..Len(node.kids)}

\* C21: for every h1 element of the page whose text collapses to T, wherever
\* it lies in the page, the markdown has a line that is one '#', one space
\* and T.
HeadingLineInOutput ==
    phase = "converted" /\ conv_in.kind = "chain" /\ outcome.ret = "Ok"
        => \A t \in plain_headings(conv_in.dom) :
               contains(<<LF>> \o outcome.markdown, ((<<LF, "#", SP>> \o t) \o <<LF>>))

(***************************************************************************)
(* Properties of lists.                                                    *)
(***************************************************************************)
\* for the li elements at or below node, the numbers of lists that enclose
\* the list each belongs to; k lists enclose node
RECURSIVE item_levels(_, _)
item_levels(node, k) ==
    (IF node.kind = "Element" /\ node.name = "li" THEN {k - 1} ELSE {})
    \cup UNION {item_levels(node.kids[i],
                            IF node.kind = "Element" /\ node.name \in {"ul", "ol"}
                            THEN k + 1 ELSE k) : i \in 1..Len(node.kids)}

\* the markdown has a line of exactly 2 * k spaces and the marker of an
\* unordered item
item_line_at(k) ==
    \E i \in DOMAIN lines(outcome.markdown) :
        \/ starts_with(lines(outcome.markdown)[i], indent(k) \o <<"-", SP>>)
        \/ lines(outcome.markdown)[i] = indent(k) \o <<"-">>

\* C22: an item of a list that lies in k other lists is written with exactly
\* 2 * k spaces before its marker, whatever elements lie between the list
\* and the item that encloses it.
ItemIndentedByNesting ==
    phase = "converted" /\ conv_in.kind = "chain" /\ outcome.ret = "Ok"
        => \A k \in item_levels(conv_in.dom, 0) : item_line_at(k)

(***************************************************************************)
(* Properties of url resolution.                                           *)
(***************************************************************************)
\* C23: with a base url that ends in '/', a relative image url p is written
\* to the front matter as the base url followed by p.
RelativeUrlUnderBaseDirectory ==
    LET base_url == conv_in.self.options.base_url
    IN /\ MetaConverted
       /\ base_url.some /\ ends_with(base_url.value, <<"/">>)
       /\ sources(<<"o", "g", ":", "i", "m", "a", "g", "e">>) = {<<"p">>}
       => field_written(<<"i", "m", "a", "g", "e", ":", " ">>, base_url.value \o <<"p">>)

(***************************************************************************)
(* Properties of the etag.                                                 *)
(***************************************************************************)
\* the bytes behind the record's etag pointer
etag_bytes(r, h) == IF (r.etag - WILD) \in DOMAIN h THEN h[r.etag - WILD].bytes ELSE <<>>

\* a double quote, 2 * EtagHashBytes lowercase hex digits, a double quote
QuotedHex(e) ==
    /\ Len(e) = 2 * EtagHashBytes + 2
    /\ e[1] = "\"" /\ e[Len(e)] = "\""
    /\ \A i \in 2..(Len(e) - 1) :
          e[i] \in {"0", "1", "2", "3", "4", "5", "6", "7", "8", "9",
                    "a", "b", "c", "d", "e", "f"}

\* C24: on a success result the etag pointer is non-NULL exactly when
\* generate_etag is nonzero, and the etag is then a quoted string of 32
\* lowercase hex digits, 34 bytes, computed from the markdown bytes of the
\* same result.
EtagMatchesReturnedMarkdown ==
    Converted /\ SuccessState(record) =>
        /\ ~is_null(record.etag) <=> last.a.options_ref.generate_etag # 0
        /\ is_null(record.etag) => record.etag_len = 0
        /\ ~is_null(record.etag) =>
              /\ record.etag_len = Len(etag_bytes(record, heap))
              /\ QuotedHex(etag_bytes(record, heap))
              /\ etag_bytes(record, heap) = generate(markdown_bytes(record, heap))

\* a conversion returned markdown and an etag
SuccessWithEtag ==
    /\ Converted /\ SuccessState(record)
    /\ last.a.options_ref.generate_etag # 0
    /\ record.markdown_len > 0 /\ record.etag_len > 0
    /\ QuotedHex(etag_bytes(record, heap))

(***************************************************************************)
(* Properties of a context without a deadline.                             *)
(***************************************************************************)
\* C25: on a context whose timeout is zero neither increment_and_check, at a
\* checkpoint or between checkpoints, nor check_timeout ever returns
\* Timeout, however far the clock has advanced.
ZeroTimeoutNeverExpires ==
    phase = "ctx" /\ ctx.timeout = 0 =>
        /\ probe.last_ret # "Timeout"
        /\ probe.first_err_at = 0
        /\ check_timeout(ctx, clock) = "Ok"

\* a context without a deadline has passed two checkpoints with the clock
\* at its end, and its last call returned Ok
ZeroTimeoutPastSecondCheckpoint ==
    /\ phase = "ctx" /\ ctx.timeout = 0
    /\ clock = MaxClock
    /\ ctx.node_count = 2 * CheckpointEvery
    /\ probe.last_ret = "Ok"

(***************************************************************************)
(* Properties of the buffers over a sequence of calls.                     *)
(***************************************************************************)
\* C26: after markdown_result_free on the record, every buffer a conversion
\* allocated has been released exactly once, except the buffers the record
\* still pointed to when markdown_convert was called on it again: those are
\* never released.
BuffersReleasedOnceUnlessAbandoned ==
    last.op = "free" /\ ~is_null(last.result) =>
        \A i \in DOMAIN heap :
            heap[i].frees = IF i \in last.abandoned THEN 0 ELSE 1

\* C26 as stated: after markdown_result_free on the record, every buffer a
\* conversion allocated has been released exactly once
EveryBufferReleasedOnce ==
    last.op = "free" /\ ~is_null(last.result) =>
        \A i \in DOMAIN heap : heap[i].frees = 1

\* two conversions that filled the record, each followed by
\* markdown_result_free, and every buffer released once
TwoConversionsEachFreed ==
    /\ last.op = "free" /\ ~is_null(last.result)
    /\ Len(last.done) = 2 /\ last.abandoned = {}
    /\ Len(heap) >= 3
    /\ \A i \in DOMAIN heap : heap[i].frees = 1

(***************************************************************************)
(* The deadline of a conversion at the boundary.                           *)
(***************************************************************************)
\* C27: the deadline of markdown_convert is measured from the start of the
\* call: a call with valid arguments whose charset resolution and parsing
\* alone take longer than timeout_ms (> 0) returns Timeout at the check that
\* follows parsing
SlowParseTimesOutAfterParse ==
    /\ last.op = "convert" /\ ~last.env.panics
    /\ ~is_null(last.a.handle) /\ ~is_null(last.a.html)
    /\ ~is_null(last.a.options) /\ ~is_null(last.a.result)
    /\ last.a.html_len > 0 /\ last.a.bytes.decodes
    /\ \A f \in {"content_type", "base_url"} :
          last.a.options_ref[f].len = 0 \/ ~is_null(last.a.options_ref[f].ptr)
    /\ last.a.options_ref.timeout_ms > 0
    /\ last.env.parse > last.a.options_ref.timeout_ms
    => /\ record.error_code = ERROR_TIMEOUT
       /\ last.checks # <<>>
       /\ last.checks[1].at = "parse" /\ last.checks[1].ret = "Timeout"

(***************************************************************************)
(* The normalizer's notion of a code line.                                 *)
(***************************************************************************)
\* the pre texts that handle_code_block wrote between a pair of fences
fenced_texts ==
    {t \in pre_texts(conv_in.dom) :
        contains(outcome.raw, (((Fence \o <<LF>>) \o t) \o <<LF>>) \o Fence)}

\* C28: the normalizer treats a line as code exactly when it lies between
\* the opening and the closing fence written for a pre element, also when a
\* content line of the pre starts with three backticks: every non-blank
\* content line written between the fences of a pre element is a line of the
\* output, changed only by the removal of trailing whitespace
CodeLinesBetweenOwnFences ==
    phase = "converted" /\ conv_in.kind = "chain" /\ outcome.ret = "Ok"
        => \A t \in fenced_texts :
               \A i \in DOMAIN lines(t) :
                   trim_end(lines(t)[i]) # <<>>
                       => \E j \in DOMAIN lines(outcome.markdown) :
                              lines(outcome.markdown)[j] = trim_end(lines(t)[i])

(***************************************************************************)
(* Front matter of a page without metadata.                                *)
(***************************************************************************)
\* both gates are on, the conversion succeeded, and the extracted record has
\* no field with a non-empty value
ConvertedWithoutMetadata ==
    /\ phase = "converted" /\ outcome.ret = "Ok"
    /\ conv_in.self.options.include_front_matter /\ conv_in.self.options.extract_metadata
    /\ LET metadata == extract(MetadataExtractor_new(conv_in.self.options.base_url,
                                   conv_in.self.options.resolve_relative_urls),
                               conv_in.dom)
       IN \A f \in {"title", "url", "description", "image", "author", "published"} :
              ~metadata[f].some \/ metadata[f].value = <<>>

\* C29: when both front-matter gates are on and no metadata field has a
\* non-empty value, the extraction still succeeds and an empty block is
\* emitted: the output begins with a `---` line directly followed by the
\* closing `---` line
EmptyMetadataGivesEmptyBlock ==
    ConvertedWithoutMetadata
        => /\ starts_with(outcome.raw, <<"-", "-", "-", LF, "-", "-", "-", LF, LF>>)
           /\ starts_with(outcome.markdown, <<"-", "-", "-", LF, "-", "-", "-", LF>>)

\* C29 as stated: when both front-matter gates are on and no metadata field
\* has a non-empty value, the output does not begin with a `---` line
NoBlockWithoutMetadata ==
    ConvertedWithoutMetadata => ~starts_with(outcome.markdown, <<"-", "-", "-", LF>>)

\* the page of test_yaml_front_matter_empty_metadata: an empty head, a
\* paragraph, both gates on, no base url
EmptyHeadPageConverted ==
    /\ ConvertedWithoutMetadata /\ conv_in.kind = "meta"
    /\ head_of(conv_in.dom) = <<>>
    /\ outcome.markdown = <<"-", "-", "-", LF, "-", "-", "-", LF, LF, "s", LF>>

(***************************************************************************)
(* Idempotence of the normalizer.                                          *)
(***************************************************************************)
\* C30: output normalization is idempotent: applying normalize_output to
\* its own output returns that output unchanged, for every input buffer
NormalizeIsIdempotent ==
    phase = "normalized" => normalize_output(normalized) = normalized

\* a buffer with a run of spaces was normalized, and normalizing the output
\* again leaves it as it is
CollapsedRunNormalizedAgain ==
    /\ phase = "normalized"
    /\ buf = <<"a", SP, SP, "a">>
    /\ normalized = <<"a", SP, "a", LF>>
    /\ normalize_output(normalized) = normalized

=============================================================================
